---- MODULE Spec2Model ----
(* Verification model of the pairwise-proto benchmarking harness:            *)
(*   - the artifact freezer  (scripts/generator_common.py)                   *)
(*   - the pairwise engine   (scripts/pairwise/run_pairwise.py, passes.py,   *)
(*                            metrics.py, io_utils.py)                       *)
EXTENDS Integers, Sequences, FiniteSets, TLC

VARIABLES
    fs,        \* circuits tree: path -> [data, mtime] for every existing file
    fz,        \* per process: the frame of its _freeze_json call
    procs,     \* the generator processes that may run
    ncalls,    \* logical clock: number of generate_and_freeze calls started
    derived,   \* history: the [spec, tkc, path] of the generate_and_freeze calls made
    results,   \* results tree: csv path -> lines (each line its cells)
    dumps,     \* results tree: debug dump path -> text
    eng,       \* the engine's position and locals in main
    nruns,     \* logical clock: number of engine runs started
    tlog,      \* history: the trials reached in the current run, in order
    bench,     \* a circuit in memory and the last library call made on it
    batch      \* the batch generator's position in main of generate_all.py

\* what a step of the engine leaves alone
frzVars == <<fs, fz, procs, ncalls, derived, bench, batch>>

\* what a step of the freezer leaves alone
engVars == <<results, dumps, eng, nruns, tlog, bench, batch>>

vars ==
    <<fs, fz, procs, ncalls, derived, results, dumps, eng, nruns, tlog, bench, batch>>

-----------------------------------------------------------------------------
(* Bounds                                                                    *)

MaxCalls == 2

MaxRuns == 2

\* longest command list of a circuit handed to the library functions
MaxCmds == 3

\* longest list of pass names handed to apply_sequence
MaxNames == 2

-----------------------------------------------------------------------------
(* Values                                                                    *)

\* Python's None for Optional[int] fields (all real values are >= 0)
None == -1

Str(x) == IF x = None THEN "None" ELSE ToString(x)

Families == {"qft", "qaoa"}

Natives == {"ibm_falcon"}

\* GenSpec dataclass: qft needs no reps/seed, qaoa needs both
GenSpec ==
    { [family |-> "qft", native |-> n, size |-> 8, reps |-> None, seed |-> None,
       symbolic |-> b] : n \in Natives, b \in BOOLEAN }
    \cup
    { [family |-> "qaoa", native |-> n, size |-> 8, reps |-> 1, seed |-> 11,
       symbolic |-> b] : n \in Natives, b \in BOOLEAN }

\* A pytket Circuit: its qubit count and its command list; a command is named
\* by gate and qubits ("CX01" is a cx on qubits 0 and 1)
Circuit(cmds) == [n_qubits |-> 8, cmds |-> cmds]

\* Circuits the external builder may hand back
BuiltCircuits == { Circuit(<<"H0">>), Circuit(<<"H0", "CX01">>) }

\* tkc.to_dict() + json.dumps(indent=2): the text, as the chunks written to disk
to_json(tkc) == <<"{", ToString(tkc.n_qubits)>> \o tkc.cmds \o <<"}">>

\* hashlib.sha256(bytes).hexdigest(): collision-free on the bytes
sha256(bytes) == <<"sha256">> \o bytes

\* json.dumps(meta, indent=2): small, one chunk
meta_json(meta) == << meta >>

-----------------------------------------------------------------------------
(* Paths: [parent |-> directory segments, name |-> dot-separated segments];   *)
(* the first segment of a name is the stem, kept as the sequence of the      *)
(* pieces the f-string joins, so that the engine's regexes can read it back  *)

file_stem(family, size, reps, seed, symbolic, native) ==
    LET tag  == IF symbolic THEN "sym" ELSE "num"
        core == CASE family = "qaoa" ->
                       <<"qaoa", "_n", Str(size), "_r", Str(reps), "_seed",
                         Str(seed), "_", tag>>
                  [] family = "vqe_two_local" ->
                       <<"vqe2l", "_n", Str(size), "_r", Str(reps), "_", tag>>
                  [] family = "qft"           -> <<"qft", "_n", Str(size)>>
                  [] family = "ghz"           -> <<"ghz", "_n", Str(size)>>
                  [] family = "grover"        -> <<"grover", "_n", Str(size)>>
                  [] family = "vbe_adder"     -> <<"vbe_adder", "_n", Str(size)>>
                  [] family = "randomcircuit" -> <<"random", "_n", Str(size)>>
    IN  core \o <<"__", native>>

out_path(root, native, family, size, reps, seed, symbolic) ==
    [parent |-> <<root, native, family>>,
     name   |-> <<file_stem(family, size, reps, seed, symbolic, native),
                  "tket", "json">>]

\* pathlib.Path.with_suffix: the last dotted segment is replaced
with_suffix(path, suffix) ==
    [path EXCEPT !.name =
        IF Len(path.name) > 1
        THEN SubSeq(path.name, 1, Len(path.name) - 1) \o suffix
        ELSE path.name \o suffix]

\* line 74: path.with_suffix(".meta.json")
meta_path(path) == with_suffix(path, <<"meta", "json">>)

\* mutant: the temporary file is named like an artifact
tmp_name_tket(dir, k) ==
    [parent |-> dir, name |-> << <<"tmp" \o ToString(k)>>, "tket", "json" >>]

\* tempfile.NamedTemporaryFile(dir=...): a fresh name in that directory
tmp_name(dir, k) == [parent |-> dir, name |-> << <<"tmp" \o ToString(k)>> >>]

exists(path) == path \in DOMAIN fs

\* the file system with path (over)written / removed
put(f, path, file) == [q \in DOMAIN f \cup {path} |-> IF q = path THEN file ELSE f[q]]

remove(f, path) == [q \in DOMAIN f \ {path} |-> f[q]]

\* os.rename / shutil.move inside one directory: atomic replace
rename(f, src, dst) == IF src = dst THEN f ELSE remove(put(f, dst, f[src]), src)

-----------------------------------------------------------------------------
(* generate_and_freeze and _freeze_json                                      *)

keep_symbolic(spec) ==
    IF spec.family \in {"qaoa", "vqe_two_local"} THEN spec.symbolic ELSE TRUE

\* mutant: the file name is addressed by the content
canonical_path_by_content(spec, tkc) ==
    [parent |-> <<"circuits", spec.native, spec.family>>,
     name   |-> <<file_stem(spec.family, spec.size, spec.reps, spec.seed,
                            keep_symbolic(spec), spec.native)
                    \o <<"_", ToString(Len(tkc.cmds))>>, "tket", "json">>]

\* the path generate_and_freeze derives (the built circuit is in scope there)
canonical_path(spec, tkc) ==
    out_path("circuits", spec.native, spec.family, spec.size, spec.reps,
             spec.seed, keep_symbolic(spec))

make_meta(spec, now) ==
    [family |-> spec.family, native_gateset |-> spec.native, size |-> spec.size,
     reps |-> spec.reps, seed |-> spec.seed,
     parameters |-> IF keep_symbolic(spec) THEN "symbolic" ELSE "numeric",
     opt_level |-> 0, created_utc |-> now]

\* the identifying fields of a build spec
spec_key(spec) ==
    <<spec.family, spec.native, spec.size, spec.reps, spec.seed,
      IF keep_symbolic(spec) THEN "symbolic" ELSE "numeric">>

Snapshot(path) == IF exists(path) THEN <<fs[path]>> ELSE <<>>

IdleFrame ==
    [pc |-> "idle", call |-> 0, path |-> tmp_name(<<>>, 0), meta |-> <<>>,
     force |-> FALSE, compare |-> FALSE, new_json |-> <<>>, new_hash |-> <<>>,
     tmp |-> tmp_name(<<>>, 0), written |-> 0, ret |-> <<>>,
     pre_art |-> <<>>, pre_meta |-> <<>>, renamed |-> FALSE, crashed |-> FALSE]

Running(p) == fz[p].pc \notin {"idle", "done"}

\* generate_and_freeze up to the entry of _freeze_json (lines 157-177, 53-55)
GenerateAndFreeze(p, spec, tkc, force, compare) ==
    /\ p \in procs
    /\ fz[p].pc \in {"idle", "done"}
    /\ ncalls < MaxCalls
    /\ ncalls' = ncalls + 1
    /\ LET path == canonical_path(spec, tkc)
       IN  /\ fz' = [fz EXCEPT ![p] =
                       [IdleFrame EXCEPT
                          !.pc = "l57", !.call = ncalls + 1, !.path = path,
                          !.meta = <<make_meta(spec, ncalls + 1)>>,
                          !.force = force, !.compare = compare,
                          !.new_json = to_json(tkc),
                          !.new_hash = sha256(to_json(tkc)),
                          !.pre_art = Snapshot(path),
                          !.pre_meta = Snapshot(meta_path(path))]]
           /\ derived' = derived \cup {[spec |-> spec, tkc |-> tkc, path |-> path]}
    /\ UNCHANGED <<fs, procs>>
    /\ UNCHANGED engVars

\* mutant: preserve mode returns the hash of the file on disk
FreezePreserveCheckDiskHash(p) ==
    /\ fz[p].pc = "l57"
    /\ fz' = [fz EXCEPT ![p] =
                IF exists(fz[p].path) /\ ~(fz[p].force \/ fz[p].compare)
                THEN [@ EXCEPT !.pc = "done", !.ret = sha256(fs[fz[p].path].data)]
                ELSE [@ EXCEPT !.pc = "l61"]]
    /\ UNCHANGED <<fs, procs, ncalls, derived>>
    /\ UNCHANGED engVars

\* line 57: if path.exists() and not (force or compare): return new_hash
FreezePreserveCheck(p) ==
    /\ fz[p].pc = "l57"
    /\ fz' = [fz EXCEPT ![p] =
                IF exists(fz[p].path) /\ ~(fz[p].force \/ fz[p].compare)
                THEN [@ EXCEPT !.pc = "done", !.ret = fz[p].new_hash]
                ELSE [@ EXCEPT !.pc = "l61"]]
    /\ UNCHANGED <<fs, procs, ncalls, derived>>
    /\ UNCHANGED engVars

\* mutant: compare mode rewrites the file whatever the hashes are
FreezeCompareCheckAlwaysWrite(p) ==
    /\ fz[p].pc = "l61"
    /\ fz' = [fz EXCEPT ![p].pc = "l68"]
    /\ UNCHANGED <<fs, procs, ncalls, derived>>
    /\ UNCHANGED engVars

\* lines 61-65: if compare and path.exists(): compare the hashes
FreezeCompareCheck(p) ==
    /\ fz[p].pc = "l61"
    /\ fz' = [fz EXCEPT ![p] =
                IF fz[p].compare /\ exists(fz[p].path)
                THEN IF sha256(fs[fz[p].path].data) = fz[p].new_hash
                     THEN [@ EXCEPT !.pc = "done", !.ret = fz[p].new_hash]
                     ELSE [@ EXCEPT !.pc = "l68"]
                ELSE [@ EXCEPT !.pc = "l68"]]
    /\ UNCHANGED <<fs, procs, ncalls, derived>>
    /\ UNCHANGED engVars

\* mutant: the target itself is opened for writing, no temporary file
FreezeTmpCreateInPlace(p) ==
    /\ fz[p].pc = "l68"
    /\ fs' = put(fs, fz[p].path, [data |-> <<>>, mtime |-> fz[p].call])
    /\ fz' = [fz EXCEPT ![p].pc = "l69", ![p].tmp = fz[p].path]
    /\ UNCHANGED <<procs, ncalls, derived>>
    /\ UNCHANGED engVars

\* line 68: the temporary file is created, empty, in the target's directory
FreezeTmpCreate(p) ==
    /\ fz[p].pc = "l68"
    /\ LET tmp == tmp_name(fz[p].path.parent, fz[p].call)
       IN  /\ fs' = put(fs, tmp, [data |-> <<>>, mtime |-> fz[p].call])
           /\ fz' = [fz EXCEPT ![p].pc = "l69", ![p].tmp = tmp]
    /\ UNCHANGED <<procs, ncalls, derived>>
    /\ UNCHANGED engVars

\* the chunks one flush of the buffered temporary file carries to disk
FlushChunks == 2

\* mutant: the text reaches the file with its line ends translated
FreezeTmpWriteTranslated(p) ==
    /\ fz[p].pc = "l69"
    /\ fz[p].written < Len(fz[p].new_json)
    /\ LET upto == IF fz[p].written + FlushChunks < Len(fz[p].new_json)
                   THEN fz[p].written + FlushChunks ELSE Len(fz[p].new_json)
       IN  /\ fs' = [fs EXCEPT ![fz[p].tmp].data =
                                   @ \o SubSeq(fz[p].new_json, fz[p].written + 1, upto)
                                     \o <<"\\r">>]
           /\ fz' = [fz EXCEPT ![p].written = upto]
    /\ UNCHANGED <<procs, ncalls, derived>>
    /\ UNCHANGED engVars

\* line 69: tmp.write(new_json), reaching the file flush by flush
FreezeTmpWrite(p) ==
    /\ fz[p].pc = "l69"
    /\ fz[p].written < Len(fz[p].new_json)
    /\ LET upto == IF fz[p].written + FlushChunks < Len(fz[p].new_json)
                   THEN fz[p].written + FlushChunks ELSE Len(fz[p].new_json)
       IN  /\ fs' = [fs EXCEPT ![fz[p].tmp].data =
                                   @ \o SubSeq(fz[p].new_json, fz[p].written + 1, upto)]
           /\ fz' = [fz EXCEPT ![p].written = upto]
    /\ UNCHANGED <<procs, ncalls, derived>>
    /\ UNCHANGED engVars

\* line 70: leaving the with block closes the complete temporary file
FreezeTmpClose(p) ==
    /\ fz[p].pc = "l69"
    /\ fz[p].written = Len(fz[p].new_json)
    /\ fz' = [fz EXCEPT ![p].pc = "l71"]
    /\ UNCHANGED <<fs, procs, ncalls, derived>>
    /\ UNCHANGED engVars

\* mutant: the temporary file is never moved over the target
FreezeRenameSkipped(p) ==
    /\ fz[p].pc = "l71"
    /\ fz' = [fz EXCEPT ![p].pc = "l75", ![p].renamed = TRUE]
    /\ UNCHANGED <<fs, procs, ncalls, derived>>
    /\ UNCHANGED engVars

\* line 71: shutil.move(tmp_path, path)
FreezeRename(p) ==
    /\ fz[p].pc = "l71"
    /\ fs' = rename(fs, fz[p].tmp, fz[p].path)
    /\ fz' = [fz EXCEPT ![p].pc = "l75", ![p].renamed = TRUE]
    /\ UNCHANGED <<procs, ncalls, derived>>
    /\ UNCHANGED engVars

\* line 71 raising: the move fails (OSError), the exception leaves
\* _freeze_json and ends the process; the temporary file stays
FreezeRenameFails(p) ==
    /\ fz[p].pc = "l71"
    /\ fz' = [fz EXCEPT ![p].pc = "idle", ![p].crashed = TRUE, ![p].ret = <<"OSError">>]
    /\ UNCHANGED <<fs, procs, ncalls, derived>>
    /\ UNCHANGED engVars

\* line 75: write_text opens the sidecar for writing, which truncates it
FreezeMetaOpen(p) ==
    /\ fz[p].pc = "l75"
    /\ fs' = put(fs, with_suffix(fz[p].path, <<"meta", "json">>),
                 [data |-> <<>>, mtime |-> fz[p].call])
    /\ fz' = [fz EXCEPT ![p].pc = "l75w"]
    /\ UNCHANGED <<procs, ncalls, derived>>
    /\ UNCHANGED engVars

\* mutant: the sidecar is left as opened, nothing is written to it
FreezeMetaWriteNothing(p) ==
    /\ fz[p].pc = "l75w"
    /\ fz' = [fz EXCEPT ![p].pc = "done", ![p].ret = fz[p].new_hash]
    /\ UNCHANGED <<fs, procs, ncalls, derived>>
    /\ UNCHANGED engVars

\* mutant: the metadata written is that of the call made last by any process
FreezeMetaWriteLatest(p) ==
    /\ fz[p].pc = "l75w"
    /\ LET last == CHOOSE q \in DOMAIN fz : \A r \in DOMAIN fz : fz[r].call <= fz[q].call
       IN  fs' = put(fs, with_suffix(fz[p].path, <<"meta", "json">>),
                     [data |-> meta_json(fz[last].meta[1]), mtime |-> fz[p].call])
    /\ fz' = [fz EXCEPT ![p].pc = "done", ![p].ret = fz[p].new_hash]
    /\ UNCHANGED <<procs, ncalls, derived>>
    /\ UNCHANGED engVars

\* lines 75-76: the metadata text is written, the file closed, new_hash returned
FreezeMetaWrite(p) ==
    /\ fz[p].pc = "l75w"
    /\ fs' = put(fs, with_suffix(fz[p].path, <<"meta", "json">>),
                 [data |-> meta_json(fz[p].meta[1]), mtime |-> fz[p].call])
    /\ fz' = [fz EXCEPT ![p].pc = "done", ![p].ret = fz[p].new_hash]
    /\ UNCHANGED <<procs, ncalls, derived>>
    /\ UNCHANGED engVars

\* the process dies between two steps; files stay as they are
Crash(p) ==
    /\ Running(p)
    /\ fz' = [fz EXCEPT ![p].pc = "idle", ![p].crashed = TRUE]
    /\ UNCHANGED <<fs, procs, ncalls, derived>>
    /\ UNCHANGED engVars

-----------------------------------------------------------------------------


-----------------------------------------------------------------------------
(* Circuits, metrics (metrics.py) and passes (passes.py)                     *)

\* cmd.op name, lower-cased as _op_name_counts does
OpName(cmd) ==
    CASE cmd \in {"H0", "H1"}       -> "h"
      [] cmd \in {"X0", "X1"}       -> "x"
      [] cmd \in {"Z0", "Z1"}       -> "z"
      [] cmd \in {"CX01"}           -> "cx"
      [] cmd \in {"CCX012"}         -> "ccx"
      [] cmd \in {"Barrier01"}      -> "barrier"
      [] cmd \in {"Measure0"}       -> "measure"
      [] cmd \in {"Reset1"}         -> "reset"

\* the qubits a command acts on
OpQubits(cmd) ==
    CASE cmd \in {"H0", "X0", "Z0", "Measure0"} -> {0}
      [] cmd \in {"H1", "X1", "Z1", "Reset1"}   -> {1}
      [] cmd \in {"CX01", "Barrier01"}          -> {0, 1}
      [] cmd \in {"CCX012"}                     -> {0, 1, 2}

\* cmd.op.n_qubits
OpArity(cmd) == Cardinality(OpQubits(cmd))

RECURSIVE CountIf(_, _)
CountIf(cmds, names) ==
    IF cmds = <<>> THEN 0
    ELSE (IF OpName(Head(cmds)) \in names THEN 1 ELSE 0) + CountIf(Tail(cmds), names)

RECURSIVE CountArity(_, _)
CountArity(cmds, k) ==
    IF cmds = <<>> THEN 0
    ELSE (IF OpArity(Head(cmds)) = k THEN 1 ELSE 0) + CountArity(Tail(cmds), k)

\* _count_ops_by_qubits: (ntot, n1, n2), directives counted like any command
count_ops_by_qubits(circ) ==
    <<Len(circ.cmds), CountArity(circ.cmds, 1), CountArity(circ.cmds, 2)>>

\* the names of a command list in first-encountered order
RECURSIVE FirstSeen(_, _)
FirstSeen(cmds, seen) ==
    IF cmds = <<>> THEN <<>>
    ELSE IF OpName(Head(cmds)) \in seen THEN FirstSeen(Tail(cmds), seen)
         ELSE <<OpName(Head(cmds))>> \o FirstSeen(Tail(cmds), seen \cup {OpName(Head(cmds))})

\* Counter.most_common: by count, descending, ties in first-encountered order
RECURSIVE MostCommon(_, _)
MostCommon(names, cmds) ==
    IF names = <<>> THEN <<>>
    ELSE LET best == CHOOSE i \in 1..Len(names) :
                        \A j \in 1..Len(names) :
                           \/ CountIf(cmds, {names[i]}) > CountIf(cmds, {names[j]})
                           \/ (CountIf(cmds, {names[i]}) = CountIf(cmds, {names[j]}) /\ i <= j)
             rest == SubSeq(names, 1, best - 1) \o SubSeq(names, best + 1, Len(names))
         IN  << <<names[best], CountIf(cmds, {names[best]})>> >> \o MostCommon(rest, cmds)

\* counts.most_common(8)
top_ops(circ) ==
    LET all == MostCommon(FirstSeen(circ.cmds, {}), circ.cmds)
    IN  SubSeq(all, 1, IF Len(all) < 8 THEN Len(all) ELSE 8)

Max(S) == CHOOSE m \in S : \A y \in S : y <= m

\* circ.depth(): the longest chain of commands sharing qubits; a barrier
\* orders the commands around it and is not counted itself
RECURSIVE Levels(_, _)
Levels(cmds, level) ==
    IF cmds = <<>> THEN level
    ELSE LET qs == OpQubits(Head(cmds))
             at == Max({level[q] : q \in qs})
             up == IF OpName(Head(cmds)) = "barrier" THEN at ELSE at + 1
         IN  Levels(Tail(cmds), [q \in DOMAIN level |-> IF q \in qs THEN up ELSE level[q]])

depth(circ) == Max({Levels(circ.cmds, [r \in 0..2 |-> 0])[q] : q \in 0..2})

\* mutant: the gates-only total is taken from the arity counters
compute_metrics_gates_by_arity(circ) ==
    LET c         == count_ops_by_qubits(circ)
        n_barrier == CountIf(circ.cmds, {"barrier"})
        n_measure == CountIf(circ.cmds, {"measure"})
        n_reset   == CountIf(circ.cmds, {"reset"})
    IN  [n_qubits |-> circ.n_qubits,
         depth |-> depth(circ),
         n_ops_total |-> c[1],
         n_ops_total_gates |-> c[2] + c[3],
         n_ops_1q |-> c[2],
         n_ops_2q |-> c[3],
         n_ops_directive_barrier |-> n_barrier,
         n_ops_directive_measure |-> n_measure,
         n_ops_directive_reset |-> n_reset,
         top_ops |-> top_ops(circ)]

compute_metrics(circ) ==
    LET c         == count_ops_by_qubits(circ)
        n_barrier == CountIf(circ.cmds, {"barrier"})
        n_measure == CountIf(circ.cmds, {"measure"})
        n_reset   == CountIf(circ.cmds, {"reset"})
    IN  [n_qubits |-> circ.n_qubits,
         depth |-> depth(circ),
         n_ops_total |-> c[1],
         n_ops_total_gates |-> c[1] - (n_barrier + n_measure + n_reset),
         n_ops_1q |-> c[2],
         n_ops_2q |-> c[3],
         n_ops_directive_barrier |-> n_barrier,
         n_ops_directive_measure |-> n_measure,
         n_ops_directive_reset |-> n_reset,
         top_ops |-> top_ops(circ)]

\* RemoveBarriers: every barrier is dropped
RECURSIVE RemoveBarriers(_)
RemoveBarriers(cmds) ==
    IF cmds = <<>> THEN <<>>
    ELSE IF OpName(Head(cmds)) = "barrier" THEN RemoveBarriers(Tail(cmds))
         ELSE <<Head(cmds)>> \o RemoveBarriers(Tail(cmds))

\* no command strictly between i and j touches a qubit of qs
Adjacent(cmds, i, j, qs) ==
    \A k \in (i + 1)..(j - 1) : OpQubits(cmds[k]) \cap qs = {}

SelfInverse(cmd) == OpName(cmd) \in {"h", "x", "z", "cx", "ccx"}

Without(cmds, i, j) ==
    SubSeq(cmds, 1, i - 1) \o SubSeq(cmds, i + 1, j - 1) \o SubSeq(cmds, j + 1, Len(cmds))

\* RemoveRedundancies: a self-inverse gate directly followed by itself on the
\* same qubits cancels, until no such pair is left
RECURSIVE RemoveRedundancies(_)
RemoveRedundancies(cmds) ==
    LET pairs == { ij \in (1..Len(cmds)) \X (1..Len(cmds)) :
                      /\ ij[1] < ij[2]
                      /\ cmds[ij[1]] = cmds[ij[2]]
                      /\ SelfInverse(cmds[ij[1]])
                      /\ Adjacent(cmds, ij[1], ij[2], OpQubits(cmds[ij[1]])) }
    IN  IF pairs = {} THEN cmds
        ELSE LET ij == CHOOSE x \in pairs :
                          \A y \in pairs : x[1] < y[1] \/ (x[1] = y[1] /\ x[2] <= y[2])
             IN  RemoveRedundancies(Without(cmds, ij[1], ij[2]))

\* CommuteThroughMultis: a z on the control of a cx that directly precedes it
\* is moved in front of the cx, until no such z is left
RECURSIVE CommuteThroughMultis(_)
CommuteThroughMultis(cmds) ==
    LET hits == { ij \in (1..Len(cmds)) \X (1..Len(cmds)) :
                     /\ ij[1] < ij[2]
                     /\ cmds[ij[1]] = "CX01"
                     /\ cmds[ij[2]] = "Z0"
                     /\ Adjacent(cmds, ij[1], ij[2], {0}) }
    IN  IF hits = {} THEN cmds
        ELSE LET ij == CHOOSE x \in hits :
                          \A y \in hits : x[1] < y[1] \/ (x[1] = y[1] /\ x[2] <= y[2])
             IN  CommuteThroughMultis(
                    SubSeq(cmds, 1, ij[1] - 1) \o <<"Z0">>
                       \o SubSeq(cmds, ij[1], ij[2] - 1)
                       \o SubSeq(cmds, ij[2] + 1, Len(cmds)))

\* PASS_OBJS: the closed registry
PASS_OBJS == {"RB", "RR", "CTM"}

\* PASS_OBJS[name].apply(out)
apply_pass(name, circ) ==
    [circ EXCEPT !.cmds =
        CASE name = "RB"  -> RemoveBarriers(@)
          [] name = "RR"  -> RemoveRedundancies(@)
          [] name = "CTM" -> CommuteThroughMultis(@)]

\* mutant: a name missing from the registry is passed over
RECURSIVE run_passes_lenient(_, _)
run_passes_lenient(out, seq_names) ==
    IF seq_names = <<>> THEN [obj |-> out, error |-> FALSE]
    ELSE IF Head(seq_names) \notin PASS_OBJS THEN run_passes_lenient(out, Tail(seq_names))
         ELSE run_passes_lenient(apply_pass(Head(seq_names), out), Tail(seq_names))

\* the loop of apply_sequence over the object `out`: the object after the
\* passes, and whether a name was missing from the registry (KeyError)
RECURSIVE run_passes(_, _)
run_passes(out, seq_names) ==
    IF seq_names = <<>> THEN [obj |-> out, error |-> FALSE]
    ELSE IF Head(seq_names) \notin PASS_OBJS THEN [obj |-> out, error |-> TRUE]
         ELSE run_passes(apply_pass(Head(seq_names), out), Tail(seq_names))

\* mutant: no copy is taken, the passes run on the caller's object
apply_sequence_in_place(circ, seq_names) ==
    LET r == run_passes(circ, seq_names)
    IN  [circ |-> r.obj, out |-> r.obj, error |-> r.error]

\* apply_sequence: out = circ.copy(), the passes mutate out; the result names
\* the caller's object after the call and the object returned
apply_sequence(circ, seq_names) ==
    LET r == run_passes(circ, seq_names)
    IN  [circ |-> circ, out |-> r.obj, error |-> r.error]

-----------------------------------------------------------------------------
(* The pairwise engine (run_pairwise.py) and discovery (io_utils.py)         *)

\* PASS_OBJS is the registry of passes.py; the command line may name others
PairLists ==
    { << <<"RB", "RR">> >>,
      << <<"RB", "RR">>, <<"RR", "CTM">> >>,
      << <<"RB", "XX">> >> }

\* the parsed command line of one run (filters at their defaults)
RunConfigs ==
    [direction : {"both", "A_then_B", "B_then_A"},
     skip_existing : BOOLEAN,
     fresh_summary : BOOLEAN,
     pairs : PairLists,
     size_filter : {{}},
     reps_filter : {{}},
     seeds_filter : {{}},
     only_symbolic : {FALSE}]

\* --gatesets x --families, in loop order
Scopes ==
    << <<"ibm_falcon", "qft">>, <<"ibm_falcon", "qaoa">>,
       <<"ibm_falcon", "vqe_two_local">> >>

circuits_root == "circuits"

results_root == "results/pairwise"

\* str(datetime.date.today())
date_str == "2026-11-01"

ID_COLS ==
    <<"timestamp", "gateset", "family", "size", "variant", "passA", "passB",
      "direction">>

PRETTY_COLS ==
    ID_COLS
    \o <<"depth_before", "depth_after", "depth_delta">>
    \o <<"n_ops_total_before", "n_ops_total_after", "n_ops_total_delta">>
    \o <<"n_ops_total_gates_before", "n_ops_total_gates_after", "n_ops_total_gates_delta">>
    \o <<"n_ops1_before", "n_ops1_after", "n_ops1_delta">>
    \o <<"n_ops2_before", "n_ops2_after", "n_ops2_delta">>
    \o <<"other_before", "other_after", "other_delta">>
    \o <<"barrier_before", "barrier_after", "barrier_delta">>
    \o <<"measure_before", "measure_after", "measure_delta">>
    \o <<"reset_before", "reset_after", "reset_delta">>
    \o <<"top_ops_before", "top_ops_after">>
    \o <<"n_qubits_before", "n_qubits_after">>

\* json.dumps of the top_ops list
RECURSIVE json_pairs(_)
json_pairs(ops) ==
    IF ops = <<>> THEN ""
    ELSE "[\"" \o ops[1][1] \o "\", " \o ToString(ops[1][2]) \o "]"
           \o (IF Len(ops) > 1 THEN ", " ELSE "") \o json_pairs(Tail(ops))

json_dumps_top(ops) == "[" \o json_pairs(ops) \o "]"

\* the three cells <field>_before, <field>_after, <field>_delta as csv text
Cells3(b, a) == <<ToString(b), ToString(a), ToString(a - b)>>

\* row_pretty, as the cells csv.DictWriter writes in PRETTY_COLS order
row_pretty(ts, gateset, family, size, variant, passA, passB, direction, before, after) ==
    LET other_before == before.n_ops_total - (before.n_ops_1q + before.n_ops_2q)
        other_after  == after.n_ops_total - (after.n_ops_1q + after.n_ops_2q)
    IN  <<ToString(ts), gateset, family, ToString(size), variant, passA, passB, direction>>
        \o Cells3(before.depth, after.depth)
        \o Cells3(before.n_ops_total, after.n_ops_total)
        \o Cells3(before.n_ops_total_gates, after.n_ops_total_gates)
        \o Cells3(before.n_ops_1q, after.n_ops_1q)
        \o Cells3(before.n_ops_2q, after.n_ops_2q)
        \o Cells3(other_before, other_after)
        \o Cells3(before.n_ops_directive_barrier, after.n_ops_directive_barrier)
        \o Cells3(before.n_ops_directive_measure, after.n_ops_directive_measure)
        \o Cells3(before.n_ops_directive_reset, after.n_ops_directive_reset)
        \o <<json_dumps_top(before.top_ops), json_dumps_top(after.top_ops)>>
        \o <<ToString(before.n_qubits), ToString(after.n_qubits)>>

\* dict.get on a metadata object
Get(meta, key) == IF key \in DOMAIN meta THEN meta[key] ELSE None

Truthy(v) == v # None /\ v # 0

\* \d+ and int() on a piece of a file name
IsDigits(s) == \E n \in 0..40 : ToString(n) = s

ToInt(s) == CHOOSE n \in 0..40 : ToString(n) = s

\* the first position where the pieces of a name match a pattern of the
\* engine's regexes ("d" stands for \d+, "t" for (sym|num)), 0 if none
Match(tokens, pat) ==
    LET fits(i) == /\ i + Len(pat) - 1 <= Len(tokens)
                   /\ \A k \in 1..Len(pat) :
                         CASE pat[k] = "d" -> IsDigits(tokens[i + k - 1])
                           [] pat[k] = "t" -> tokens[i + k - 1] \in {"sym", "num"}
                           [] OTHER        -> tokens[i + k - 1] = pat[k]
        ok == { i \in 1..Len(tokens) : fits(i) }
    IN  IF ok = {} THEN 0 ELSE CHOOSE i \in ok : \A j \in ok : i <= j

parse_size(meta, stem) ==
    LET size == IF Truthy(Get(meta, "size")) THEN Get(meta, "size")
                ELSE IF Truthy(Get(meta, "n_qubits")) THEN Get(meta, "n_qubits")
                ELSE Get(meta, "n")
        m    == Match(stem, <<"_n", "d">>)
    IN  IF size # None THEN size
        ELSE IF m # 0 THEN ToInt(stem[m + 1]) ELSE None

\* no tag: Python's None where a string is expected
NoTag == "None"

parse_meta_variant_bits(meta, family) ==
    LET params == IF "parameters" \in DOMAIN meta THEN meta["parameters"] ELSE NoTag
    IN  <<Get(meta, "reps"), Get(meta, "seed"),
          CASE params = "symbolic" -> "sym"
            [] params = "numeric"  -> "num"
            [] OTHER               -> NoTag>>

parse_filename_variant_bits(stem, family) ==
    LET mq == Match(stem, <<"_r", "d", "_seed", "d", "_", "t", "__">>)
        mv == Match(stem, <<"_r", "d", "_", "t", "__">>)
    IN  IF family = "qaoa" /\ mq # 0
        THEN <<ToInt(stem[mq + 1]), ToInt(stem[mq + 3]), stem[mq + 5]>>
        ELSE IF family = "vqe_two_local" /\ mv # 0
        THEN <<ToInt(stem[mv + 1]), None, stem[mv + 3]>>
        ELSE <<None, None, NoTag>>

RECURSIVE JoinWith(_, _)
JoinWith(sep, parts) ==
    IF parts = <<>> THEN ""
    ELSE IF Len(parts) = 1 THEN parts[1]
    ELSE parts[1] \o sep \o JoinWith(sep, Tail(parts))

\* mutant: the seed is left out of the variant
derive_variant_string_no_seed(reps, seed, params_tag, family) ==
    IF family \in {"qaoa", "vqe_two_local"}
    THEN JoinWith("_",
            (IF reps # None THEN <<"r" \o ToString(reps)>> ELSE <<>>)
            \o (IF params_tag # NoTag THEN <<params_tag>> ELSE <<>>))
    ELSE ""

derive_variant_string(reps, seed, params_tag, family) ==
    IF family \in {"qaoa", "vqe_two_local"}
    THEN JoinWith("_",
            (IF reps # None THEN <<"r" \o ToString(reps)>> ELSE <<>>)
            \o (IF family = "qaoa" /\ seed # None THEN <<"seed" \o ToString(seed)>> ELSE <<>>)
            \o (IF params_tag # NoTag THEN <<params_tag>> ELSE <<>>))
    ELSE ""

\* mutant: the drop-suffix name is tried first
meta_candidates_drop_first(path) ==
    <<with_suffix(with_suffix(path, <<>>), <<"meta", "json">>),
      with_suffix(path, <<"meta", "json">>)>>

\* _meta_candidates: foo.tket.meta.json, then foo.meta.json
meta_candidates(path) ==
    <<with_suffix(path, <<"meta", "json">>),
      with_suffix(with_suffix(path, <<>>), <<"meta", "json">>)>>

\* find_circuits: the (artifact, metadata) pairs under root/gateset/family,
\* at any depth (rglob)
find_circuits(root, gateset, family) ==
    { [pjson |-> path,
       pmeta |-> IF exists(meta_candidates(path)[1]) THEN meta_candidates(path)[1]
                 ELSE meta_candidates(path)[2]] :
        path \in { q \in DOMAIN fs :
                     /\ Len(q.parent) >= 3
                     /\ SubSeq(q.parent, 1, 3) = <<root, gateset, family>>
                     /\ Len(q.name) >= 3
                     /\ q.name[Len(q.name) - 1] = "tket"
                     /\ q.name[Len(q.name)] = "json"
                     /\ \E i \in 1..2 : exists(meta_candidates(q)[i]) } }

\* load_meta: json.load of the sidecar; an empty file is no JSON
meta_is_json(data) == data # <<>>

load_meta(data) == data[1]

\* load_tket: json.loads + Circuit.from_dict
load_tket(data) ==
    [n_qubits |-> ToInt(data[2]), cmds |-> SubSeq(data, 3, Len(data) - 1)]

scoped_path_of(gateset, family) ==
    results_root \o "/summary/" \o gateset \o "/" \o family \o "/" \o date_str
      \o "_" \o family \o "_" \o gateset \o "_pairwise.csv"

outdir_of(gateset, family, size) ==
    results_root \o "/" \o gateset \o "/" \o family \o "/n" \o ToString(size)

safe_base_name(family, size, variant, A, B, direction) ==
    family \o "_n" \o ToString(size) \o "_" \o variant \o "__" \o A \o "_" \o B
      \o "__" \o direction

\* mutant: both directions apply the passes in the order A, B
RECURSIVE plans_of_same_order(_, _)
plans_of_same_order(pairs, direction) ==
    IF pairs = <<>> THEN <<>>
    ELSE LET A == pairs[1][1]
             B == pairs[1][2]
             both == << [A |-> A, B |-> B, direction |-> "A_then_B", seq |-> <<A, B>>],
                        [A |-> A, B |-> B, direction |-> "B_then_A", seq |-> <<A, B>>] >>
         IN  SelectSeq(both, LAMBDA x : direction = "both" \/ x.direction = direction)
               \o plans_of_same_order(Tail(pairs), direction)

\* the trials of one artifact in loop order: pairs outside, directions inside
RECURSIVE plans_of(_, _)
plans_of(pairs, direction) ==
    IF pairs = <<>> THEN <<>>
    ELSE LET A == pairs[1][1]
             B == pairs[1][2]
             both == << [A |-> A, B |-> B, direction |-> "A_then_B", seq |-> <<A, B>>],
                        [A |-> A, B |-> B, direction |-> "B_then_A", seq |-> <<B, A>>] >>
         IN  SelectSeq(both, LAMBDA x : direction = "both" \/ x.direction = direction)
               \o plans_of(Tail(pairs), direction)

\* generate_all is not running
NoBatch == [pc |-> "idle", todo |-> <<>>, failed |-> {}, printed |-> <<>>]

\* no circuit is held outside the engine
NoBench == [circ |-> <<>>, call |-> "none", args |-> <<>>, ret |-> <<>>]

IdleEngine ==
    [pc |-> "idle", cfg |-> <<>>, scopes |-> <<>>, scope |-> <<>>,
     scoped_path |-> "", agg_open |-> << >>, queue |-> <<>>, pjson |-> <<>>,
     size |-> None, variant |-> "", outdir |-> "", base |-> <<>>,
     base_metrics |-> <<>>, plans |-> <<>>, admitted |-> <<>>, rerun |-> FALSE,
     same |-> TRUE, mixed |-> FALSE]

Cfg == eng.cfg[1]

\* the order in which the directory walk (rglob) hands back a set of entries:
\* some order, the same one as long as the directory is the same
WalkOrder(S) ==
    CHOOSE q \in [1..Cardinality(S) -> S] : \A i, j \in DOMAIN q : i # j => q[i] # q[j]

\* the inputs of a run other than the two output policies
Inputs(cfg) ==
    <<cfg.pairs, cfg.direction, cfg.size_filter, cfg.reps_filter, cfg.seeds_filter,
      cfg.only_symbolic>>

\* main, lines 166-187: the command line is parsed, the scope loops begin;
\* rerun (history) notes that the run before this one ended normally, did not
\* skip existing output and had the same inputs, same that every run before
\* this one ended normally and had these inputs, mixed that some run so far
\* asked for skip-existing and fresh-summary together
StartRun(cfg) ==
    /\ eng.pc \in {"idle", "done", "aborted"}
    /\ nruns < MaxRuns
    /\ nruns' = nruns + 1
    /\ eng' = [IdleEngine EXCEPT
                 !.pc = "scope", !.cfg = <<cfg>>, !.scopes = Scopes,
                 !.rerun = /\ eng.pc = "done"
                           /\ ~Cfg.skip_existing
                           /\ Inputs(Cfg) = Inputs(cfg),
                 !.same = \/ nruns = 0
                          \/ /\ eng.pc = "done"
                             /\ eng.same
                             /\ Inputs(Cfg) = Inputs(cfg),
                 !.mixed = \/ nruns > 0 /\ eng.mixed
                           \/ cfg.skip_existing /\ cfg.fresh_summary]
    /\ tlog' = <<>>
    /\ UNCHANGED <<results, dumps>>
    /\ UNCHANGED frzVars

\* mutant: the aggregate is always opened for writing
OpenScopeAlwaysFresh ==
    /\ eng.pc = "scope"
    /\ eng.scopes # <<>>
    /\ LET gateset == eng.scopes[1][1]
           family  == eng.scopes[1][2]
           path    == scoped_path_of(gateset, family)
       IN  /\ results' = [q \in DOMAIN results \cup {path} |->
                            IF q = path THEN <<PRETTY_COLS>> ELSE results[q]]
           /\ eng' = [eng EXCEPT
                        !.pc = "artifact", !.scope = eng.scopes[1],
                        !.scopes = Tail(@), !.scoped_path = path,
                        !.agg_open = [q \in DOMAIN @ \cup {path} |->
                                        IF q = path THEN results'[path] ELSE @[q]],
                        !.queue = WalkOrder(find_circuits(circuits_root, gateset, family))]
    /\ UNCHANGED <<dumps, nruns, tlog>>
    /\ UNCHANGED frzVars

\* mutant: the header is written on every open, appending or not
OpenScopeHeaderAlways ==
    /\ eng.pc = "scope"
    /\ eng.scopes # <<>>
    /\ LET gateset == eng.scopes[1][1]
           family  == eng.scopes[1][2]
           path    == scoped_path_of(gateset, family)
           mode    == IF ~Cfg.fresh_summary /\ path \in DOMAIN results THEN "a" ELSE "w"
       IN  /\ results' = [q \in DOMAIN results \cup {path} |->
                            IF q # path THEN results[q]
                            ELSE IF mode = "w" THEN <<PRETTY_COLS>>
                            ELSE Append(results[path], PRETTY_COLS)]
           /\ eng' = [eng EXCEPT
                        !.pc = "artifact", !.scope = eng.scopes[1],
                        !.scopes = Tail(@), !.scoped_path = path,
                        !.agg_open = [q \in DOMAIN @ \cup {path} |->
                                        IF q = path THEN results'[path] ELSE @[q]],
                        !.queue = WalkOrder(find_circuits(circuits_root, gateset, family))]
    /\ UNCHANGED <<dumps, nruns, tlog>>
    /\ UNCHANGED frzVars

\* lines 189-198 with open_writer (157-164): the scope's aggregate is opened,
\* appending if it exists and fresh-summary is off, else truncated and given
\* its header; the discovered artifacts are queued in walk order
OpenScope ==
    /\ eng.pc = "scope"
    /\ eng.scopes # <<>>
    /\ LET gateset == eng.scopes[1][1]
           family  == eng.scopes[1][2]
           path    == scoped_path_of(gateset, family)
           mode    == IF ~Cfg.fresh_summary /\ path \in DOMAIN results THEN "a" ELSE "w"
       IN  /\ results' = IF mode = "w"
                         THEN [q \in DOMAIN results \cup {path} |->
                                 IF q = path THEN <<PRETTY_COLS>> ELSE results[q]]
                         ELSE results
           /\ eng' = [eng EXCEPT
                        !.pc = "artifact", !.scope = eng.scopes[1],
                        !.scopes = Tail(@), !.scoped_path = path,
                        !.agg_open = [q \in DOMAIN @ \cup {path} |->
                                        IF q = path THEN results'[path] ELSE @[q]],
                        !.queue = WalkOrder(find_circuits(circuits_root, gateset, family))]
    /\ UNCHANGED <<dumps, nruns, tlog>>
    /\ UNCHANGED frzVars

\* the end of the loops of lines 189-190: main returns
EndRun ==
    /\ eng.pc = "scope"
    /\ eng.scopes = <<>>
    /\ eng' = [eng EXCEPT !.pc = "done"]
    /\ UNCHANGED <<results, dumps, nruns, tlog>>
    /\ UNCHANGED frzVars

\* line 289: sf.close() once the artifacts of the scope are exhausted
CloseScope ==
    /\ eng.pc = "artifact"
    /\ eng.queue = <<>>
    /\ eng' = [eng EXCEPT !.pc = "scope"]
    /\ UNCHANGED <<results, dumps, nruns, tlog>>
    /\ UNCHANGED frzVars

\* mutant: the symbolic-only filter also drops artifacts without a tag
filtered_out_fail_closed(cfg, family, size, reps, seed, tag) ==
    \/ size = None
    \/ (cfg.size_filter # {} /\ size \notin cfg.size_filter)
    \/ (family \in {"qaoa", "vqe_two_local"} /\ cfg.reps_filter # {}
          /\ (reps = None \/ reps \notin cfg.reps_filter))
    \/ (family = "qaoa" /\ cfg.seeds_filter # {}
          /\ (seed = None \/ seed \notin cfg.seeds_filter))
    \/ (cfg.only_symbolic /\ tag # "sym")

\* mutant: the repetitions filter is applied to every family
filtered_out_reps_everywhere(cfg, family, size, reps, seed, tag) ==
    \/ size = None
    \/ (cfg.size_filter # {} /\ size \notin cfg.size_filter)
    \/ (cfg.reps_filter # {} /\ (reps = None \/ reps \notin cfg.reps_filter))
    \/ (family = "qaoa" /\ cfg.seeds_filter # {}
          /\ (seed = None \/ seed \notin cfg.seeds_filter))
    \/ (cfg.only_symbolic /\ tag \notin {"sym", NoTag})

\* the `continue`s of lines 207-233: unresolved size, then the size, reps,
\* seed and symbolic-only filters
filtered_out(cfg, family, size, reps, seed, tag) ==
    \/ size = None
    \/ (cfg.size_filter # {} /\ size \notin cfg.size_filter)
    \/ (family \in {"qaoa", "vqe_two_local"} /\ cfg.reps_filter # {}
          /\ (reps = None \/ reps \notin cfg.reps_filter))
    \/ (family = "qaoa" /\ cfg.seeds_filter # {}
          /\ (seed = None \/ seed \notin cfg.seeds_filter))
    \/ (cfg.only_symbolic /\ tag \notin {"sym", NoTag})

\* lines 198-243: the next artifact is read, sized, filtered and, if admitted,
\* loaded and measured once; malformed metadata ends the run
NextArtifact ==
    /\ eng.pc = "artifact"
    /\ eng.queue # <<>>
    /\ LET pjson   == eng.queue[1].pjson
           pmeta   == eng.queue[1].pmeta
           gateset == eng.scope[1]
           family  == eng.scope[2]
           stem    == pjson.name[1]
       IN  IF ~meta_is_json(fs[pmeta].data)
           THEN eng' = [eng EXCEPT !.pc = "aborted"]
           ELSE
             LET meta  == load_meta(fs[pmeta].data)
                 size  == parse_size(meta, stem)
                 bm    == parse_meta_variant_bits(meta, family)
                 bf    == parse_filename_variant_bits(stem, family)
                 reps  == IF bm[1] # None THEN bm[1] ELSE bf[1]
                 seed  == IF bm[2] # None THEN bm[2] ELSE bf[2]
                 tag   == IF bm[3] # NoTag THEN bm[3] ELSE bf[3]
                 skip  == filtered_out(Cfg, family, size, reps, seed, tag)
                 base  == load_tket(fs[pjson].data)
                 plans == plans_of(Cfg.pairs, Cfg.direction)
             IN  IF skip
                 THEN eng' = [eng EXCEPT !.queue = Tail(@)]
                 ELSE eng' = [eng EXCEPT
                                !.queue = Tail(@), !.pjson = <<pjson>>, !.size = size,
                                !.variant = derive_variant_string(reps, seed, tag, family),
                                !.outdir = outdir_of(gateset, family, size),
                                !.base = <<base>>,
                                !.base_metrics = <<compute_metrics(base)>>,
                                !.plans = plans,
                                !.admitted = Append(@, pjson),
                                !.pc = IF plans = <<>> THEN "artifact" ELSE "trial"]
    /\ UNCHANGED <<results, dumps, nruns, tlog>>
    /\ UNCHANGED frzVars

\* outdir joined with safe_base_name: the per-trial csv and the two dumps
\* are this name with ".csv", "__before.tket.json", "__after.tket.json"
TrialStem(plan) ==
    eng.outdir \o "/"
      \o safe_base_name(eng.scope[2], eng.size, eng.variant, plan.A, plan.B, plan.direction)

Outfile(plan) == TrialStem(plan) \o ".csv"

\* mutant: the per-trial csv is opened for appending
trial_csv_appended(outfile, row) ==
    IF outfile \in DOMAIN results THEN Append(results[outfile], row)
    ELSE <<PRETTY_COLS, row>>

\* lines 278-281: the per-trial csv, opened "w": header, then the row
trial_csv(outfile, row) == <<PRETTY_COLS, row>>

\* mutant: existing output is never a reason to skip
skip_trial_never(plan) == FALSE

\* line 252: args.skip_existing and os.path.exists(outfile)
skip_trial(plan) == Cfg.skip_existing /\ Outfile(plan) \in DOMAIN results

\* what can go wrong with the two debug dumps of a trial (lines 265-269):
\* an open that fails leaves the file as it was, a write that fails leaves it
\* opened and empty; the after dump is not tried once the before dump failed
DumpFaults == {"none", "before_open", "before_write", "after_open", "after_write"}

\* lines 265-272: the dumps directory after the try block
write_dumps(stemname, before, after, fault) ==
    LET bpath == stemname \o "__before.tket.json"
        apath == stemname \o "__after.tket.json"
        wrote == CASE fault = "none"         -> (bpath :> to_json(before)) @@ (apath :> to_json(after))
                   [] fault = "before_open"  -> << >>
                   [] fault = "before_write" -> (bpath :> << >>)
                   [] fault = "after_open"   -> (bpath :> to_json(before))
                   [] fault = "after_write"  -> (bpath :> to_json(before)) @@ (apath :> << >>)
    IN  [q \in DOMAIN dumps \cup DOMAIN wrote |->
           IF q \in DOMAIN wrote THEN wrote[q] ELSE dumps[q]]

\* mutant: a failed dump ends the trial before its row is written
trial_outputs_dump_fatal(fault, outfile, row) ==
    IF fault # "none" THEN results
    ELSE [q \in DOMAIN results \cup {outfile} |->
            IF q = outfile THEN trial_csv(outfile, row)
            ELSE IF q = eng.scoped_path THEN Append(results[q], row)
            ELSE results[q]]

\* mutant: the row is written to the per-trial csv only
trial_outputs_unaggregated(fault, outfile, row) ==
    [q \in DOMAIN results \cup {outfile} |->
       IF q = outfile THEN trial_csv(outfile, row) ELSE results[q]]

\* lines 274-284, reached whatever happened to the dumps: the per-trial csv
\* and the row appended to the aggregate
trial_outputs(fault, outfile, row) ==
    [q \in DOMAIN results \cup {outfile} |->
       IF q = outfile THEN trial_csv(outfile, row)
       ELSE IF q = eng.scoped_path THEN Append(results[q], row)
       ELSE results[q]]

AfterTrial(e) ==
    [e EXCEPT !.plans = Tail(@), !.pc = IF Len(e.plans) = 1 THEN "artifact" ELSE "trial"]

\* mutant: the csv of a skipped trial is reopened for writing before the skip
TrialSkipTouching ==
    /\ eng.pc = "trial"
    /\ skip_trial(eng.plans[1])
    /\ eng' = AfterTrial(eng)
    /\ tlog' = Append(tlog, [scope |-> eng.scope, pjson |-> eng.pjson[1],
                             plan |-> eng.plans[1], stem |-> TrialStem(eng.plans[1]),
                             ran |-> FALSE, row |-> <<>>, fault |-> "none"])
    /\ results' = [results EXCEPT ![Outfile(eng.plans[1])] = <<PRETTY_COLS>>]
    /\ UNCHANGED <<dumps, nruns>>
    /\ UNCHANGED frzVars

\* lines 250-255: under skip-existing a trial whose file exists is passed over
TrialSkip ==
    /\ eng.pc = "trial"
    /\ skip_trial(eng.plans[1])
    /\ eng' = AfterTrial(eng)
    /\ tlog' = Append(tlog, [scope |-> eng.scope, pjson |-> eng.pjson[1],
                             plan |-> eng.plans[1], stem |-> TrialStem(eng.plans[1]),
                             ran |-> FALSE, row |-> <<>>, fault |-> "none"])
    /\ UNCHANGED <<results, dumps, nruns>>
    /\ UNCHANGED frzVars

\* lines 257-284: one trial: the sequence is applied, the result measured, the
\* two debug dumps written (or failing, which is swallowed), the row built,
\* written to its own csv with a header and appended to the scope's aggregate
TrialRun(fault) ==
    /\ eng.pc = "trial"
    /\ ~skip_trial(eng.plans[1])
    /\ LET plan    == eng.plans[1]
           r       == apply_sequence(eng.base[1], plan.seq)
           outfile == Outfile(plan)
           stemname == TrialStem(plan)
           row     == row_pretty(nruns, eng.scope[1], eng.scope[2], eng.size,
                                 eng.variant, plan.A, plan.B, plan.direction,
                                 eng.base_metrics[1], compute_metrics(r.out))
       IN  /\ ~r.error
           /\ dumps' = write_dumps(stemname, r.circ, r.out, fault)
           /\ results' = trial_outputs(fault, outfile, row)
           /\ eng' = AfterTrial([eng EXCEPT !.base = <<r.circ>>])
           /\ tlog' = Append(tlog, [scope |-> eng.scope, pjson |-> eng.pjson[1],
                                    plan |-> plan, stem |-> stemname,
                                    ran |-> TRUE, row |-> row, fault |-> fault])
    /\ UNCHANGED nruns
    /\ UNCHANGED frzVars

\* mutant: the rows the scope has written are rolled back when the run ends
\* on an unknown name
TrialFatalRollback ==
    /\ eng.pc = "trial"
    /\ ~skip_trial(eng.plans[1])
    /\ LET r == apply_sequence(eng.base[1], eng.plans[1].seq)
       IN  /\ r.error
           /\ eng' = [eng EXCEPT !.pc = "aborted", !.base = <<r.circ>>]
    /\ results' = [results EXCEPT ![eng.scoped_path] = eng.agg_open[eng.scoped_path]]
    /\ UNCHANGED <<dumps, nruns, tlog>>
    /\ UNCHANGED frzVars

\* line 258 raising KeyError: a name outside the registry ends the run; the
\* passes before it ran on the object apply_sequence works on
TrialFatal ==
    /\ eng.pc = "trial"
    /\ ~skip_trial(eng.plans[1])
    /\ LET r == apply_sequence(eng.base[1], eng.plans[1].seq)
       IN  /\ r.error
           /\ eng' = [eng EXCEPT !.pc = "aborted", !.base = <<r.circ>>]
    /\ UNCHANGED <<results, dumps, nruns, tlog>>
    /\ UNCHANGED frzVars

Procs == {1, 2}

Init ==
    /\ fs = << >>
    /\ fz = [p \in Procs |-> IdleFrame]
    /\ procs = {1}
    /\ ncalls = 0
    /\ derived = {}
    /\ results = << >>
    /\ dumps = << >>
    /\ eng = IdleEngine
    /\ nruns = 0
    /\ tlog = << >>
    /\ bench = NoBench
    /\ batch = NoBatch

Next ==
    \/ \E p \in Procs, spec \in GenSpec, tkc \in BuiltCircuits, force, compare \in BOOLEAN :
          GenerateAndFreeze(p, spec, tkc, force, compare)
    \/ \E p \in Procs : FreezePreserveCheck(p)
    \/ \E p \in Procs : FreezeCompareCheck(p)
    \/ \E p \in Procs : FreezeTmpCreate(p)
    \/ \E p \in Procs : FreezeTmpWrite(p)
    \/ \E p \in Procs : FreezeTmpClose(p)
    \/ \E p \in Procs : FreezeRename(p)
    \/ \E p \in Procs : FreezeMetaOpen(p)
    \/ \E p \in Procs : FreezeMetaWrite(p)
    \/ \E p \in Procs : Crash(p)

Spec == Init /\ [][Next]_vars

\* a store as the generator leaves it: each artifact with its sidecar
Frozen(spec, tkc, now) ==
    LET path == canonical_path(spec, tkc)
    IN  [q \in {path, meta_path(path)} |->
           IF q = path THEN [data |-> to_json(tkc), mtime |-> now]
           ELSE [data |-> meta_json(make_meta(spec, now)), mtime |-> now]]

Merge(f, g) == [q \in DOMAIN f \cup DOMAIN g |-> IF q \in DOMAIN g THEN g[q] ELSE f[q]]

QftSpec == [family |-> "qft", native |-> "ibm_falcon", size |-> 8, reps |-> None,
            seed |-> None, symbolic |-> TRUE]

QaoaSpec(symbolic) ==
    [family |-> "qaoa", native |-> "ibm_falcon", size |-> 8, reps |-> 1, seed |-> 11,
     symbolic |-> symbolic]

\* circuits found frozen when the engine starts
QftCircuits ==
    { Circuit(<<"X0", "Barrier01", "X0", "CX01", "Z0">>),
      Circuit(<<"H0", "CX01", "Measure0">>) }

QaoaSymCircuit == Circuit(<<"Z0", "CX01", "Z0", "H1">>)

QaoaNumCircuit == Circuit(<<"H0", "H0", "CCX012", "Reset1">>)

InitEngine ==
    /\ \E c \in QftCircuits :
          fs = Merge(Frozen(QftSpec, c, 1),
                     Merge(Frozen(QaoaSpec(TRUE), QaoaSymCircuit, 1),
                           Frozen(QaoaSpec(FALSE), QaoaNumCircuit, 1)))
    /\ fz = [p \in Procs |-> IdleFrame]
    /\ procs = {}
    /\ ncalls = 0
    /\ derived = {}
    /\ results = << >>
    /\ dumps = << >>
    /\ eng = IdleEngine
    /\ nruns = 0
    /\ tlog = << >>
    /\ bench = NoBench
    /\ batch = NoBatch

NextEngine ==
    \/ \E cfg \in RunConfigs : StartRun(cfg)
    \/ OpenScope
    \/ EndRun
    \/ CloseScope
    \/ NextArtifact
    \/ TrialSkip
    \/ TrialRun("none")
    \/ TrialFatal

SpecEngine == InitEngine /\ [][NextEngine]_vars

-----------------------------------------------------------------------------
(* The engine under filters, over a circuits root that also holds artifacts  *)
(* the generator did not name and a sidecar a crashed freeze left empty      *)

VqeSpec == [family |-> "vqe_two_local", native |-> "ibm_falcon", size |-> 8,
            reps |-> 1, seed |-> None, symbolic |-> TRUE]

VqeCircuit == Circuit(<<"H0", "CX01", "Measure0">>)

\* an artifact put there by hand: a name of its own and a sparse sidecar
Foreign(family, stem, meta, tkc) ==
    LET path == [parent |-> <<circuits_root, "ibm_falcon", family>>,
                 name   |-> <<stem, "tket", "json">>]
    IN  [q \in {path, meta_path(path)} |->
           IF q = path THEN [data |-> to_json(tkc), mtime |-> 1]
           ELSE [data |-> meta_json(meta), mtime |-> 1]]

RECURSIVE MergeAll(_)
MergeAll(stores) ==
    IF stores = <<>> THEN << >> ELSE Merge(stores[1], MergeAll(Tail(stores)))

GeneratedStore ==
    MergeAll(<< Frozen(QftSpec, Circuit(<<"H0", "CX01", "Measure0">>), 1),
                Frozen(QaoaSpec(TRUE), QaoaSymCircuit, 1),
                Frozen(QaoaSpec(FALSE), QaoaNumCircuit, 1),
                Frozen(VqeSpec, VqeCircuit, 1) >>)

\* size only in the file name; no reps, seed or parameter mode anywhere
ForeignStore ==
    MergeAll(<< Foreign("qft", <<"big", "_n", "16">>, [note |-> 0], QaoaSymCircuit),
                Foreign("qaoa", <<"plain", "_n", "8">>, [size |-> 8], QaoaSymCircuit),
                Foreign("qaoa", <<"nameless">>, [note |-> 0], QaoaNumCircuit),
                Foreign("qaoa", <<"old", "_n", "8", "_r", "3", "_seed", "22", "_",
                                  "num", "__", "x">>, [n_qubits |-> 8], QaoaNumCircuit),
                Foreign("vqe_two_local", <<"plain", "_n", "8">>, [n |-> 8], VqeCircuit) >>)

\* line 75 interrupted: the sidecar was opened for writing and nothing written
Torn(store, sidecars) ==
    [q \in DOMAIN store |->
       IF q \in sidecars THEN [data |-> << >>, mtime |-> 2] ELSE store[q]]

\* the filter options of a run: none, each filter alone with a value that
\* occurs and one that does not, and all of them together
FilterChoices ==
    { <<{}, {}, {}, FALSE>>,
      <<{8}, {}, {}, FALSE>>, <<{16}, {}, {}, FALSE>>,
      <<{}, {1}, {}, FALSE>>, <<{}, {3}, {}, FALSE>>,
      <<{}, {}, {11}, FALSE>>, <<{}, {}, {22}, FALSE>>,
      <<{}, {}, {}, TRUE>>,
      <<{8}, {1}, {11}, TRUE>>, <<{8}, {3}, {22}, FALSE>> }

FilterConfig(skip, pairs, f) ==
    [direction |-> "A_then_B", skip_existing |-> skip, fresh_summary |-> FALSE,
     pairs |-> pairs, size_filter |-> f[1], reps_filter |-> f[2],
     seeds_filter |-> f[3], only_symbolic |-> f[4]]

\* every filter choice; skip-existing with and without a filter; a pair list
\* whose second pair names a transformation outside the registry
FilterConfigs ==
    { FilterConfig(FALSE, << <<"RB", "RR">> >>, f) : f \in FilterChoices }
    \cup { FilterConfig(TRUE, << <<"RB", "RR">> >>, f) :
              f \in { <<{}, {}, {}, FALSE>>, <<{}, {1}, {}, FALSE>> } }
    \cup { FilterConfig(FALSE, << <<"RB", "RR">>, <<"RR", "XX">> >>, <<{}, {}, {}, FALSE>>) }

\* the sidecars a crashed freeze may have left empty
TornChoices ==
    { {} } \cup { {meta_path(canonical_path(QaoaSpec(b), QaoaSymCircuit))} : b \in BOOLEAN }

InitFilter ==
    /\ \E torn \in TornChoices :
          fs = Torn(Merge(GeneratedStore, ForeignStore), torn)
    /\ fz = [p \in Procs |-> IdleFrame]
    /\ procs = {}
    /\ ncalls = 0
    /\ derived = {}
    /\ results = << >>
    /\ dumps = << >>
    /\ eng = IdleEngine
    /\ nruns = 0
    /\ tlog = << >>
    /\ bench = NoBench
    /\ batch = NoBatch

NextFilter ==
    \/ \E cfg \in FilterConfigs : StartRun(cfg)
    \/ OpenScope
    \/ EndRun
    \/ CloseScope
    \/ NextArtifact
    \/ TrialSkip
    \/ TrialRun("none")
    \/ TrialFatal

SpecFilter == InitFilter /\ [][NextFilter]_vars


-----------------------------------------------------------------------------
(* The engine over a store of one artifact, with debug dumps that may fail   *)

\* runs over one pair in both directions, with and without skip-existing,
\* and one run naming a pass unknown to the registry
DumpConfigs ==
    { [direction |-> "both", skip_existing |-> skip, fresh_summary |-> FALSE,
       pairs |-> pairs, size_filter |-> {}, reps_filter |-> {}, seeds_filter |-> {},
       only_symbolic |-> FALSE] :
         skip \in BOOLEAN, pairs \in { << <<"RB", "RR">> >>, << <<"RR", "XX">> >> } }

InitDumps ==
    /\ \E c \in QftCircuits : fs = Frozen(QftSpec, c, 1)
    /\ fz = [p \in Procs |-> IdleFrame]
    /\ procs = {}
    /\ ncalls = 0
    /\ derived = {}
    /\ results = << >>
    /\ dumps = << >>
    /\ eng = IdleEngine
    /\ nruns = 0
    /\ tlog = << >>
    /\ bench = NoBench
    /\ batch = NoBatch

NextDumps ==
    \/ \E cfg \in DumpConfigs : StartRun(cfg)
    \/ OpenScope
    \/ EndRun
    \/ CloseScope
    \/ NextArtifact
    \/ TrialSkip
    \/ \E fault \in DumpFaults : TrialRun(fault)
    \/ TrialFatal

SpecDumps == InitDumps /\ [][NextDumps]_vars

-----------------------------------------------------------------------------
(* The library functions called on one circuit in memory: compute_metrics    *)
(* (metrics.py) and apply_sequence (passes.py)                               *)

\* the commands a circuit is made of: gates on one, two and three qubits and
\* the three directives
Commands == {"H0", "Z0", "CX01", "CCX012", "Barrier01", "Measure0", "Reset1"}

SeqsUpTo(S, n) == UNION { [1..k -> S] : k \in 0..n }

LibraryCircuits == { Circuit(cmds) : cmds \in SeqsUpTo(Commands, MaxCmds) }

\* lists of pass names: those of the registry and one unknown to it
NameLists == SeqsUpTo(PASS_OBJS \cup {"XX"}, MaxNames)

InitLibrary ==
    /\ fs = << >>
    /\ fz = [p \in Procs |-> IdleFrame]
    /\ procs = {}
    /\ ncalls = 0
    /\ derived = {}
    /\ results = << >>
    /\ dumps = << >>
    /\ eng = IdleEngine
    /\ nruns = 0
    /\ tlog = << >>
    /\ \E circ \in LibraryCircuits : bench = [NoBench EXCEPT !.circ = <<circ>>]
    /\ batch = NoBatch

\* compute_metrics(circ)
CallComputeMetrics ==
    /\ bench.call = "none"
    /\ bench' = [bench EXCEPT !.call = "compute_metrics",
                              !.ret = <<compute_metrics(bench.circ[1])>>]
    /\ UNCHANGED <<fs, fz, procs, ncalls, derived, results, dumps, eng, nruns, tlog, batch>>

\* apply_sequence(circ, seq_names): the caller's object after the call, and
\* what the call gave back (a circuit, or the KeyError)
CallApplySequence(seq_names) ==
    /\ bench.call = "none"
    /\ LET r == apply_sequence(bench.circ[1], seq_names)
       IN  bench' = [circ |-> <<r.circ>>, call |-> "apply_sequence",
                     args |-> <<bench.circ[1], seq_names>>,
                     ret |-> IF r.error THEN <<"KeyError">> ELSE <<r.out>>]
    /\ UNCHANGED <<fs, fz, procs, ncalls, derived, results, dumps, eng, nruns, tlog, batch>>

NextLibrary ==
    \/ CallComputeMetrics
    \/ \E seq_names \in NameLists : CallApplySequence(seq_names)

SpecLibrary == InitLibrary /\ [][NextLibrary]_vars

-----------------------------------------------------------------------------
(* The batch generator (generate_all.py)                                     *)

\* the specs list of main, in the order it is built (lines 8-45)
BatchSpecs == <<QftSpec, QaoaSpec(TRUE), VqeSpec>>

\* what the external builders give for one spec: a circuit, or an exception
\* (the empty tuple)
BuildOutcomes == {<<>>} \cup { <<tkc>> : tkc \in BuiltCircuits }

\* the circuits root main may find: empty, or holding the first artifact
InitBatch ==
    /\ fs \in {<< >>} \cup { Frozen(QftSpec, tkc, 0) : tkc \in BuiltCircuits }
    /\ fz = [p \in Procs |-> IdleFrame]
    /\ procs = {1}
    /\ ncalls = 0
    /\ derived = {}
    /\ results = << >>
    /\ dumps = << >>
    /\ eng = IdleEngine
    /\ nruns = 0
    /\ tlog = << >>
    /\ bench = NoBench
    /\ batch = [NoBatch EXCEPT !.pc = "loop", !.todo = BatchSpecs]

\* line 48 up to the entry of _freeze_json: generate_and_freeze(spec,
\* force=False, compare=True); an exception of the builders (generator_common
\* lines 159-164) is caught nowhere and ends main
BatchGenerate(outcome) ==
    /\ batch.pc = "loop"
    /\ LET spec == batch.todo[1]
           i    == Len(BatchSpecs) - Len(batch.todo) + 1
       IN  IF outcome = <<>>
           THEN /\ batch' = [batch EXCEPT !.pc = "crashed", !.failed = @ \cup {i}]
                /\ UNCHANGED <<fz, ncalls, derived>>
           ELSE LET tkc  == outcome[1]
                    path == canonical_path(spec, tkc)
                IN  /\ batch' = [batch EXCEPT !.pc = "call"]
                    /\ ncalls' = ncalls + 1
                    /\ fz' = [fz EXCEPT ![1] =
                                [IdleFrame EXCEPT
                                   !.pc = "l57", !.call = ncalls + 1, !.path = path,
                                   !.meta = <<make_meta(spec, ncalls + 1)>>,
                                   !.force = FALSE, !.compare = TRUE,
                                   !.new_json = to_json(tkc),
                                   !.new_hash = sha256(to_json(tkc)),
                                   !.pre_art = Snapshot(path),
                                   !.pre_meta = Snapshot(meta_path(path))]]
                    /\ derived' = derived \cup {[spec |-> spec, tkc |-> tkc, path |-> path]}
    /\ UNCHANGED <<fs, procs, results, dumps, eng, nruns, tlog, bench>>

\* lines 48-49: generate_and_freeze returns the path, main prints it and
\* takes the next spec
BatchPrint ==
    /\ batch.pc = "call"
    /\ fz[1].pc = "done"
    /\ batch' = [batch EXCEPT !.printed = Append(@, fz[1].path),
                              !.todo = Tail(@),
                              !.pc = IF Len(batch.todo) = 1 THEN "done" ELSE "loop"]
    /\ UNCHANGED <<fs, fz, procs, ncalls, derived, results, dumps, eng, nruns, tlog, bench>>

NextBatch ==
    \/ \E outcome \in BuildOutcomes : BatchGenerate(outcome)
    \/ BatchPrint
    \/ FreezePreserveCheck(1)
    \/ FreezeCompareCheck(1)
    \/ FreezeTmpCreate(1)
    \/ FreezeTmpWrite(1)
    \/ FreezeTmpClose(1)
    \/ FreezeRename(1)
    \/ FreezeMetaOpen(1)
    \/ FreezeMetaWrite(1)

SpecBatch == InitBatch /\ [][NextBatch]_vars

-----------------------------------------------------------------------------
(* Discovery (io_utils.py) over a circuits root the batch generator is       *)
(* writing into                                                              *)

\* a file of the qft directory, or of a directory below it
QftFile(sub, name) ==
    [parent |-> <<circuits_root, "ibm_falcon", "qft">> \o sub, name |-> name]

\* files somebody else left: two artifacts, one of them a directory deeper,
\* each with the sidecars named in `kinds` ("keep": foo.tket.meta.json,
\* "drop": foo.meta.json)
Leftovers(kinds_foo, kinds_bar) ==
    LET foo   == QftFile(<<>>, << <<"foo">>, "tket", "json">>)
        bar   == QftFile(<<"old">>, << <<"bar">>, "tket", "json">>)
        metas == (IF "keep" \in kinds_foo
                  THEN {QftFile(<<>>, << <<"foo">>, "tket", "meta", "json">>)} ELSE {})
                 \cup (IF "drop" \in kinds_foo
                       THEN {QftFile(<<>>, << <<"foo">>, "meta", "json">>)} ELSE {})
                 \cup (IF "keep" \in kinds_bar
                       THEN {QftFile(<<"old">>, << <<"bar">>, "tket", "meta", "json">>)}
                       ELSE {})
                 \cup (IF "drop" \in kinds_bar
                       THEN {QftFile(<<"old">>, << <<"bar">>, "meta", "json">>)} ELSE {})
    IN  [q \in {foo, bar} \cup metas |->
           IF q \in metas THEN [data |-> meta_json([note |-> 0]), mtime |-> 0]
           ELSE [data |-> to_json(QaoaSymCircuit), mtime |-> 0]]

InitDiscovery ==
    /\ \E kinds_foo, kinds_bar \in SUBSET {"keep", "drop"} :
          fs = Leftovers(kinds_foo, kinds_bar)
    /\ fz = [p \in Procs |-> IdleFrame]
    /\ procs = {1}
    /\ ncalls = 0
    /\ derived = {}
    /\ results = << >>
    /\ dumps = << >>
    /\ eng = IdleEngine
    /\ nruns = 0
    /\ tlog = << >>
    /\ bench = NoBench
    /\ batch = [NoBatch EXCEPT !.pc = "loop", !.todo = BatchSpecs]

\* list(find_circuits(root, gateset, family)), at any moment of the batch
CallFindCircuits(gateset, family) ==
    /\ bench' = [circ |-> <<>>, call |-> "find_circuits",
                 args |-> <<circuits_root, gateset, family>>,
                 ret |-> <<find_circuits(circuits_root, gateset, family)>>]
    /\ bench' # bench
    /\ UNCHANGED <<fs, fz, procs, ncalls, derived, results, dumps, eng, nruns, tlog, batch>>

NextDiscovery ==
    \/ NextBatch
    \/ \E scope \in {Scopes[k] : k \in 1..Len(Scopes)} :
          CallFindCircuits(scope[1], scope[2])

SpecDiscovery == InitDiscovery /\ [][NextDiscovery]_vars

-----------------------------------------------------------------------------
(* The engine over a circuits root holding many artifacts of the generator   *)

GenSpecOf(family, size, reps, seed, symbolic) ==
    [family |-> family, native |-> "ibm_falcon", size |-> size, reps |-> reps,
     seed |-> seed, symbolic |-> symbolic]

\* specs with pairwise distinct canonical paths: they differ in size, reps,
\* seed or parameter mode, and some leave an optional field out
ManySpecs ==
    << GenSpecOf("qft", 8, None, None, TRUE),
       GenSpecOf("qft", 16, None, None, TRUE),
       GenSpecOf("qaoa", 8, 1, 11, TRUE),
       GenSpecOf("qaoa", 8, 1, 11, FALSE),
       GenSpecOf("qaoa", 8, 1, 22, TRUE),
       GenSpecOf("qaoa", 8, None, 11, TRUE),
       GenSpecOf("qaoa", 16, 3, 11, TRUE),
       GenSpecOf("vqe_two_local", 8, 1, None, TRUE),
       GenSpecOf("vqe_two_local", 8, 1, None, FALSE),
       GenSpecOf("vqe_two_local", 8, 3, None, TRUE) >>

ManyStore ==
    MergeAll([k \in 1..Len(ManySpecs) |-> Frozen(ManySpecs[k], VqeCircuit, 1)])

\* a duplicate-free pair list, one pair being another one reversed
ManyConfigs ==
    { [direction |-> d, skip_existing |-> skip, fresh_summary |-> FALSE,
       pairs |-> << <<"RB", "RR">>, <<"RR", "RB">>, <<"RB", "CTM">> >>,
       size_filter |-> {}, reps_filter |-> {}, seeds_filter |-> {},
       only_symbolic |-> FALSE] :
         d \in {"both", "A_then_B", "B_then_A"}, skip \in BOOLEAN }

InitMany ==
    /\ fs = ManyStore
    /\ fz = [p \in Procs |-> IdleFrame]
    /\ procs = {}
    /\ ncalls = 0
    /\ derived = {}
    /\ results = << >>
    /\ dumps = << >>
    /\ eng = IdleEngine
    /\ nruns = 0
    /\ tlog = << >>
    /\ bench = NoBench
    /\ batch = NoBatch

NextMany ==
    \/ \E cfg \in ManyConfigs : StartRun(cfg)
    \/ OpenScope
    \/ EndRun
    \/ CloseScope
    \/ NextArtifact
    \/ TrialSkip
    \/ TrialRun("none")

SpecMany == InitMany /\ [][NextMany]_vars

-----------------------------------------------------------------------------
(* Two generator processes, each freezing one artifact into the same root    *)

\* the calls the two may make: same or different family, same or different
\* parameter mode, either content, in each mode of _freeze_json
ConcurrentCalls ==
    { <<spec, tkc, mode[1], mode[2]>> :
        spec \in {QftSpec, QaoaSpec(TRUE), QaoaSpec(FALSE)},
        tkc \in BuiltCircuits,
        mode \in { <<FALSE, TRUE>>, <<TRUE, FALSE>>, <<FALSE, FALSE>> } }

\* the root is empty or holds one of the targets already
InitConcurrent ==
    /\ fs \in {<< >>, Frozen(QaoaSpec(TRUE), Circuit(<<"H0">>), 0)}
    /\ fz = [p \in Procs |-> IdleFrame]
    /\ procs = Procs
    /\ ncalls = 0
    /\ derived = {}
    /\ results = << >>
    /\ dumps = << >>
    /\ eng = IdleEngine
    /\ nruns = 0
    /\ tlog = << >>
    /\ bench = NoBench
    /\ batch = NoBatch

\* the one call of process p
FreezeOnce(p, call) ==
    /\ fz[p].call = 0
    /\ GenerateAndFreeze(p, call[1], call[2], call[3], call[4])

NextConcurrent ==
    \/ \E p \in Procs, call \in ConcurrentCalls : FreezeOnce(p, call)
    \/ \E p \in Procs : FreezePreserveCheck(p)
    \/ \E p \in Procs : FreezeCompareCheck(p)
    \/ \E p \in Procs : FreezeTmpCreate(p)
    \/ \E p \in Procs : FreezeTmpWrite(p)
    \/ \E p \in Procs : FreezeTmpClose(p)
    \/ \E p \in Procs : FreezeRename(p)
    \/ \E p \in Procs : FreezeMetaOpen(p)
    \/ \E p \in Procs : FreezeMetaWrite(p)
    \/ \E p \in Procs : FreezeRenameFails(p)
    \/ \E p \in Procs : Crash(p)

SpecConcurrent == InitConcurrent /\ [][NextConcurrent]_vars

-----------------------------------------------------------------------------
(* Helpers of the properties                                                 *)

\* a call of _freeze_json has been made by p (running, returned or crashed)
Called(p) == fz[p].call > 0

Returned(p) == fz[p].pc = "done"

\* text that json.loads accepts: a complete serialization
Complete(data) == Len(data) >= 3 /\ data[1] = "{" /\ data[Len(data)] = "}"

TargetIsOld(p) == Snapshot(fz[p].path) = fz[p].pre_art

TargetIsNew(p) ==
    /\ exists(fz[p].path)
    /\ fs[fz[p].path] = [data |-> fz[p].new_json, mtime |-> fz[p].call]

MetaIsOld(p) == Snapshot(meta_path(fz[p].path)) = fz[p].pre_meta

MetaIsNew(p) ==
    /\ exists(meta_path(fz[p].path))
    /\ fs[meta_path(fz[p].path)] =
          [data |-> meta_json(fz[p].meta[1]), mtime |-> fz[p].call]

TargetExisted(p) == fz[p].pre_art # <<>>

SameHashOnDisk(p) ==
    TargetExisted(p) /\ sha256(fz[p].pre_art[1].data) = fz[p].new_hash

CanonicalPaths == { canonical_path(spec, tkc) : spec \in GenSpec, tkc \in BuiltCircuits }

-----------------------------------------------------------------------------
(* C1  Freeze atomicity: in every state of a freeze that writes, a crashed   *)
(* one included, the target is absent or holds the complete old content, or  *)
(* holds the complete new content; no state shows a partial file there.      *)
C1_FreezeAtomicity ==
    /\ \A p \in procs : Called(p) => (TargetIsOld(p) \/ TargetIsNew(p))
    /\ \A path \in CanonicalPaths : exists(path) => Complete(fs[path].data)

\* a freeze over an existing target crashed with its temporary file half written
C1_Witness ==
    \E p \in procs :
        /\ fz[p].crashed /\ TargetExisted(p)
        /\ exists(fz[p].tmp)
        /\ fs[fz[p].tmp].data # <<>>
        /\ ~Complete(fs[fz[p].tmp].data)
        /\ fz[p].new_json # fz[p].pre_art[1].data

(* C2  Freeze no-op under compare: called with compare over an existing      *)
(* target whose hash equals the new hash, the call changes neither the       *)
(* artifact nor the sidecar (bytes and modification time) in any of its      *)
(* states, and it returns the new hash.                                      *)
C2_CompareNoOp ==
    \A p \in procs :
        (Called(p) /\ fz[p].compare /\ SameHashOnDisk(p)) =>
            /\ TargetIsOld(p) /\ MetaIsOld(p)
            /\ fz[p].pc \in {"l57", "l61", "done", "idle"}
            /\ Returned(p) => fz[p].ret = fz[p].new_hash

C2_Witness ==
    \E p \in procs :
        /\ Returned(p) /\ fz[p].compare /\ SameHashOnDisk(p)
        /\ fz[p].pre_meta # <<>>
        /\ fz[p].pre_art[1].mtime < fz[p].call

(* C3  A call that moved its temporary file over the target returns with the *)
(* target holding exactly the new serialization and the sidecar holding      *)
(* exactly the metadata of that call; it does so whenever the target was     *)
(* absent, or compare found a different hash, or force was set without an    *)
(* equal-hash compare; the sidecar is touched only after the rename.         *)
C3_WritePostcondition ==
    \A p \in procs :
        /\ (Returned(p) /\ fz[p].renamed) => (TargetIsNew(p) /\ MetaIsNew(p))
        /\ (Returned(p) /\ ( \/ ~TargetExisted(p)
                             \/ (fz[p].compare /\ ~SameHashOnDisk(p))
                             \/ (fz[p].force /\ ~(fz[p].compare /\ SameHashOnDisk(p)))))
              => fz[p].renamed
        /\ (Called(p) /\ ~MetaIsOld(p)) => (fz[p].renamed /\ TargetIsNew(p))

C3_Witness ==
    \E p \in procs :
        /\ Returned(p) /\ fz[p].renamed /\ fz[p].compare /\ ~fz[p].force
        /\ TargetExisted(p) /\ ~SameHashOnDisk(p)
        /\ fz[p].pre_meta # <<>>

(* C4  Preserve mode: called with neither force nor compare over an existing *)
(* target, the call changes neither the artifact nor the sidecar, whatever   *)
(* the target holds, and returns the hash of the new content.                *)
C4_PreserveMode ==
    \A p \in procs :
        (Called(p) /\ ~fz[p].force /\ ~fz[p].compare /\ TargetExisted(p)) =>
            /\ TargetIsOld(p) /\ MetaIsOld(p)
            /\ fz[p].pc \in {"l57", "done", "idle"}
            /\ Returned(p) => fz[p].ret = sha256(fz[p].new_json)

\* preserve mode returned over a target whose content differs from the new one
C4_Witness ==
    \E p \in procs :
        /\ Returned(p) /\ ~fz[p].force /\ ~fz[p].compare /\ TargetExisted(p)
        /\ fz[p].pre_art[1].data # fz[p].new_json
        /\ fz[p].ret # sha256(fs[fz[p].path].data)

(* C5  Force mode always overwrites: every returned call with force set has  *)
(* written the artifact and the sidecar, whatever the target held and        *)
(* whatever the compare flag.                                                *)
C5_ForceAlwaysOverwrites ==
    \A p \in procs :
        (Returned(p) /\ fz[p].force) => (TargetIsNew(p) /\ MetaIsNew(p))

(* C6  (as claimed) Artifact and metadata are written together or not at     *)
(* all: in every state of a freeze, crash states included, both reflect the  *)
(* new freeze or neither does.                                               *)
C6_TogetherOrNotAtAll ==
    \A p \in procs :
        Called(p) => ((TargetIsNew(p) /\ MetaIsNew(p)) \/ (TargetIsOld(p) /\ MetaIsOld(p)))

(* C6  (amended) When a freeze returns, both the artifact and the sidecar    *)
(* reflect it or neither was touched; in every state of the freeze, crash    *)
(* states included, the sidecar is touched only when the artifact already    *)
(* holds the new content (the artifact may be new with the sidecar old,      *)
(* absent or truncated).                                                     *)
C6_TogetherOnReturn ==
    \A p \in procs :
        /\ Returned(p) =>
              ((TargetIsNew(p) /\ MetaIsNew(p)) \/ (TargetIsOld(p) /\ MetaIsOld(p)))
        /\ Called(p) => (MetaIsOld(p) \/ TargetIsNew(p))

\* crashed between the rename and the sidecar write: new artifact, old sidecar
C6_Witness ==
    \E p \in procs :
        /\ fz[p].crashed /\ TargetIsNew(p) /\ MetaIsOld(p)
        /\ TargetExisted(p) /\ fz[p].pre_meta # <<>>

(* C7  Idempotent path derivation: any two generate_and_freeze calls whose   *)
(* specs agree on (family, native, size, reps, seed, parameter mode) derive  *)
(* the same path, whatever circuit was built and whatever was called before. *)
C7_IdempotentPath ==
    \A a, b \in derived :
        spec_key(a.spec) = spec_key(b.spec) => a.path = b.path

\* two calls with the same key, a different symbolic flag and different content
C7_Witness ==
    /\ \E a, b \in derived :
          /\ spec_key(a.spec) = spec_key(b.spec)
          /\ a.spec # b.spec
          /\ a.tkc # b.tkc
    /\ fz[1].pc = "done" /\ fz[1].renamed

-----------------------------------------------------------------------------
(* Helpers of the engine properties                                          *)

\* the artifact on disk behind a trial, loaded afresh, and its snapshot
Original(pjson) == load_tket(fs[pjson].data)

Indexes(name_set) == { i \in 1..Len(PRETTY_COLS) : PRETTY_COLS[i] \in name_set }

BeforeCols ==
    Indexes({"depth_before", "n_ops_total_before", "n_ops_total_gates_before",
             "n_ops1_before", "n_ops2_before", "other_before", "barrier_before",
             "measure_before", "reset_before", "top_ops_before", "n_qubits_before"})

AfterCols ==
    Indexes({"depth_after", "n_ops_total_after", "n_ops_total_gates_after",
             "n_ops1_after", "n_ops2_after", "other_after", "barrier_after",
             "measure_after", "reset_after", "top_ops_after", "n_qubits_after"})

Col(name) == CHOOSE i \in 1..Len(PRETTY_COLS) : PRETTY_COLS[i] = name

\* the cells a row must carry for given snapshots
MetricCells(before, after) == row_pretty(0, "", "", 0, "", "", "", "", before, after)

\* the circuits the engine can meet and the sequences it can apply, with the
\* cells their rows must carry, tabulated once
EngineCircuits == QftCircuits \cup {QaoaSymCircuit, QaoaNumCircuit}

PassSeqs == { <<a, b>> : a, b \in PASS_OBJS }

BeforeCells ==
    [c \in EngineCircuits |-> MetricCells(compute_metrics(c), compute_metrics(c))]

TrialCells ==
    [c \in EngineCircuits, seq \in PassSeqs |->
        MetricCells(compute_metrics(c), compute_metrics(run_passes(c, seq).obj))]

Ran == { i \in 1..Len(tlog) : tlog[i].ran }

\* the rows of the trials of a scope that ran, in order
RECURSIVE RowsOf(_, _)
RowsOf(log, scope) ==
    IF log = <<>> THEN <<>>
    ELSE (IF log[1].ran /\ log[1].scope = scope THEN <<log[1].row>> ELSE <<>>)
           \o RowsOf(Tail(log), scope)

\* the trials the command line asks for, per artifact: for each pair in order,
\* A_then_B applying [A, B] and then B_then_A applying [B, A] (or the one asked)
RECURSIVE ExpectedPlans(_, _)
ExpectedPlans(pairs, direction) ==
    IF pairs = <<>> THEN <<>>
    ELSE (IF direction \in {"both", "A_then_B"}
          THEN << [A |-> pairs[1][1], B |-> pairs[1][2], direction |-> "A_then_B",
                   seq |-> <<pairs[1][1], pairs[1][2]>>] >>
          ELSE <<>>)
         \o (IF direction \in {"both", "B_then_A"}
             THEN << [A |-> pairs[1][1], B |-> pairs[1][2], direction |-> "B_then_A",
                      seq |-> <<pairs[1][2], pairs[1][1]>>] >>
             ELSE <<>>)
         \o ExpectedPlans(Tail(pairs), direction)

\* the trials expected of a list of artifacts, artifact by artifact
RECURSIVE ExpectedTrials(_, _)
ExpectedTrials(arts, plans) ==
    IF arts = <<>> THEN <<>>
    ELSE [i \in 1..Len(plans) |-> [pjson |-> arts[1], plan |-> plans[i]]]
           \o ExpectedTrials(Tail(arts), plans)

Reached == [i \in 1..Len(tlog) |-> [pjson |-> tlog[i].pjson, plan |-> tlog[i].plan]]

IsPrefix(a, b) == Len(a) <= Len(b) /\ SubSeq(b, 1, Len(a)) = a

EngineStarted == eng.pc # "idle"

(* C8  Sequencer non-mutation: whatever sequences have been applied, the     *)
(* engine's baseline object still equals the artifact as loaded and its      *)
(* snapshot still equals the one taken once after loading; every row of a    *)
(* run carries the _before cells of its artifact's own snapshot, so rows of  *)
(* the same artifact agree on them, and every before-dump is the original.   *)
C8_SequencerNonMutation ==
    /\ (EngineStarted /\ eng.pjson # <<>>) =>
          /\ eng.base[1] = Original(eng.pjson[1])
          /\ compute_metrics(eng.base[1]) = eng.base_metrics[1]
    /\ \A i \in Ran :
          /\ LET cells == BeforeCells[Original(tlog[i].pjson)]
             IN  \A c \in BeforeCols : tlog[i].row[c] = cells[c]
          /\ dumps[tlog[i].stem \o "__before.tket.json"] = fs[tlog[i].pjson].data
    /\ \A i, j \in Ran :
          tlog[i].pjson = tlog[j].pjson =>
             \A c \in BeforeCols : tlog[i].row[c] = tlog[j].row[c]

\* two trials of one artifact ran, and the first one changed its copy
C8_Witness ==
    \E i, j \in Ran :
        /\ i < j
        /\ tlog[i].pjson = tlog[j].pjson
        /\ tlog[i].row[Col("n_ops_total_delta")] # "0"
        /\ eng.pc = "trial"

(* C9  (as claimed) With direction 'both' every admitted artifact and every  *)
(* requested pair gets two trials run, A_then_B with [A, B] and then         *)
(* B_then_A with [B, A], each emitting its row; with a single direction      *)
(* exactly that one trial is run.                                            *)
C9_BothOrderingsAlwaysRun ==
    eng.pc = "done" =>
        /\ Reached = ExpectedTrials(eng.admitted, ExpectedPlans(Cfg.pairs, Cfg.direction))
        /\ \A i \in 1..Len(tlog) : tlog[i].ran

(* C9  (amended) In a run that ends without a fatal error, every admitted    *)
(* artifact and every requested pair reaches, with direction 'both', two     *)
(* trials in the order A_then_B, B_then_A (with a single direction that one  *)
(* trial); a reached trial is passed over only under skip-existing when its  *)
(* csv exists; every other reached trial applies [A, B] for A_then_B and     *)
(* [B, A] for B_then_A to the artifact and emits one row of its own, with    *)
(* its own direction value, to its csv and to the aggregate, also when the   *)
(* two snapshots are equal; a fatal error ends the run at the trial it hits. *)
C9_BothOrderingsReported ==
    EngineStarted =>
        /\ IsPrefix(Reached,
                    ExpectedTrials(eng.admitted, ExpectedPlans(Cfg.pairs, Cfg.direction)))
        /\ eng.pc = "done" =>
              Reached = ExpectedTrials(eng.admitted, ExpectedPlans(Cfg.pairs, Cfg.direction))
        /\ \A i \in 1..Len(tlog) :
              IF tlog[i].ran
              THEN /\ tlog[i].row[Col("direction")] = tlog[i].plan.direction
                   /\ tlog[i].row[Col("passA")] = tlog[i].plan.A
                   /\ tlog[i].row[Col("passB")] = tlog[i].plan.B
                   /\ LET orig  == Original(tlog[i].pjson)
                          seq   == IF tlog[i].plan.direction = "A_then_B"
                                   THEN <<tlog[i].plan.A, tlog[i].plan.B>>
                                   ELSE <<tlog[i].plan.B, tlog[i].plan.A>>
                          cells == TrialCells[orig, seq]
                      IN  \A c \in AfterCols : tlog[i].row[c] = cells[c]
                   /\ results[tlog[i].stem \o ".csv"] = <<PRETTY_COLS, tlog[i].row>>
              ELSE Cfg.skip_existing /\ (tlog[i].stem \o ".csv") \in DOMAIN results
        /\ eng.pc = "done" =>
              \A path \in DOMAIN eng.agg_open :
                 \E scope \in {Scopes[k] : k \in 1..Len(Scopes)} :
                    /\ path = scoped_path_of(scope[1], scope[2])
                    /\ results[path] = eng.agg_open[path] \o RowsOf(tlog, scope)

\* a finished run in which both orderings of a pair gave equal snapshots and
\* still left two rows
C9_Witness ==
    /\ eng.pc = "done"
    /\ Cfg.direction = "both"
    /\ \E i \in Ran :
          /\ i + 1 \in Ran
          /\ tlog[i].pjson = tlog[i + 1].pjson
          /\ tlog[i].plan.direction = "A_then_B"
          /\ tlog[i + 1].plan.direction = "B_then_A"
          /\ \A c \in AfterCols : tlog[i].row[c] = tlog[i + 1].row[c]
          /\ tlog[i].row # tlog[i + 1].row

NDirections == IF Cfg.direction = "both" THEN 2 ELSE 1

ScopePaths == { scoped_path_of(Scopes[k][1], Scopes[k][2]) : k \in 1..Len(Scopes) }

\* the per-trial csv files whose row was written by the current run
WrittenThisRun ==
    { q \in DOMAIN results \ ScopePaths : results[q][2][Col("timestamp")] = ToString(nruns) }

(* C10 Row and file counts: a run without skip-existing that ends without a  *)
(* fatal error executes, for each admitted artifact, |pairs| x |directions|  *)
(* trials; each trial left one csv of its own holding the header and its     *)
(* row, and exactly its row was appended to the aggregate of its scope; one  *)
(* artifact, pairs {(RB,RR)} and 'both' give 2 csv files and 2 appended rows.*)
C10_RowAndFileCounts ==
    (eng.pc = "done" /\ ~Cfg.skip_existing) =>
        /\ \A k \in 1..Len(eng.admitted) :
              Cardinality({ i \in Ran : tlog[i].pjson = eng.admitted[k] })
                 = Len(Cfg.pairs) * NDirections
        /\ Ran = 1..Len(tlog)
        /\ \A i \in Ran : results[tlog[i].stem \o ".csv"] = <<PRETTY_COLS, tlog[i].row>>
        /\ WrittenThisRun = { tlog[i].stem \o ".csv" : i \in Ran }
        /\ Cardinality(WrittenThisRun) = Len(tlog)
        /\ \A k \in 1..Len(Scopes) :
              LET path == scoped_path_of(Scopes[k][1], Scopes[k][2])
              IN  /\ path \in DOMAIN eng.agg_open
                  /\ results[path] = eng.agg_open[path] \o RowsOf(tlog, Scopes[k])
                  /\ Len(RowsOf(tlog, Scopes[k]))
                        = Cardinality({ i \in Ran : tlog[i].scope = Scopes[k] })
        /\ (Cfg.pairs = << <<"RB", "RR">> >> /\ Cfg.direction = "both") =>
              \A k \in 1..Len(Scopes) :
                 Cardinality({ a \in DOMAIN fs : \E m \in 1..Len(eng.admitted) :
                                  /\ eng.admitted[m] = a
                                  /\ a.parent = <<circuits_root, Scopes[k][1], Scopes[k][2]>> }) = 1
                    => /\ Cardinality({ tlog[i].stem : i \in { j \in Ran : tlog[j].scope = Scopes[k] } }) = 2
                       /\ Len(results[scoped_path_of(Scopes[k][1], Scopes[k][2])])
                             = Len(eng.agg_open[scoped_path_of(Scopes[k][1], Scopes[k][2])]) + 2

\* a second run over existing output, appending: one artifact in the qft
\* scope, pairs {(RB,RR)}, both directions
C10_Witness ==
    /\ eng.pc = "done" /\ ~Cfg.skip_existing /\ ~Cfg.fresh_summary
    /\ nruns = 2
    /\ Cfg.pairs = << <<"RB", "RR">> >> /\ Cfg.direction = "both"
    /\ Len(tlog) = 6
    /\ Len(results[scoped_path_of("ibm_falcon", "qft")]) = 5

\* a row as another run would have stamped it
Stamp(row, t) == [row EXCEPT ![Col("timestamp")] = t]

\* the number of trials a full run gives the artifacts it admitted in a scope
FullSet(scope) ==
    Cardinality({ k \in 1..Len(eng.admitted) :
                     eng.admitted[k].parent = <<circuits_root, scope[1], scope[2]>> })
       * Len(Cfg.pairs) * NDirections

(* C11 Re-run append semantics: when a run without skip-existing follows a   *)
(* complete run of the same inputs on the same date, then without            *)
(* fresh-summary every scope aggregate ends with the first run's rows        *)
(* followed by a second full set of the same rows (twice the rows when the   *)
(* first run created the file), and with fresh-summary it holds the header   *)
(* and exactly the second run's rows.                                        *)
C11_RerunAppendSemantics ==
    (eng.pc = "done" /\ eng.rerun /\ ~Cfg.skip_existing) =>
        \A k \in 1..Len(Scopes) :
           LET path == scoped_path_of(Scopes[k][1], Scopes[k][2])
               rows == RowsOf(tlog, Scopes[k])
               n    == Len(rows)
               old  == eng.agg_open[path]
           IN  /\ n = FullSet(Scopes[k])
               /\ IF Cfg.fresh_summary
                  THEN results[path] = <<PRETTY_COLS>> \o rows
                  ELSE /\ Len(old) >= 1 + n
                       /\ SubSeq(old, Len(old) - n + 1, Len(old))
                             = [i \in 1..n |-> Stamp(rows[i], ToString(nruns - 1))]
                       /\ results[path] = old \o rows
                       /\ nruns = 2 => Len(results[path]) = 1 + 2 * n

\* the second of two equal runs has ended, appending to what the first wrote
C11_Witness ==
    /\ eng.pc = "done" /\ eng.rerun /\ ~Cfg.skip_existing /\ ~Cfg.fresh_summary
    /\ nruns = 2
    /\ Len(results[scoped_path_of("ibm_falcon", "qaoa")]) = 9

\* the trial at hand, by the (family, size, variant, A, B, direction) that
\* name its output
TrialAtHand ==
    eng.outdir \o "/"
      \o safe_base_name(eng.scope[2], eng.size, eng.variant, eng.plans[1].A,
                        eng.plans[1].B, eng.plans[1].direction)

(* C12 Skip-existing: a step taken at a trial whose per-trial csv exists     *)
(* while skip-existing is requested does not invoke the sequencer (the trial *)
(* is logged as not run and the baseline is untouched), leaves every         *)
(* per-trial csv, every debug dump and every aggregate as they are, and      *)
(* moves on to the next trial.                                               *)
C12_SkipExisting ==
    [][ (/\ eng.pc = "trial"
         /\ Cfg.skip_existing
         /\ (TrialAtHand \o ".csv") \in DOMAIN results)
        => /\ results' = results
           /\ dumps' = dumps
           /\ eng'.base = eng.base
           /\ Len(tlog') = Len(tlog) + 1
           /\ ~tlog'[Len(tlog')].ran
           /\ tlog'[Len(tlog')].stem = TrialAtHand
           /\ eng'.plans = Tail(eng.plans)
           /\ eng'.pc \in {"trial", "artifact"} ]_vars

\* a trial has been skipped over output that an earlier run left
C12_Witness ==
    \E i \in 1..Len(tlog) :
        /\ ~tlog[i].ran
        /\ (tlog[i].stem \o ".csv") \in DOMAIN results
        /\ (tlog[i].stem \o "__before.tket.json") \in DOMAIN dumps
        /\ nruns = 2

-----------------------------------------------------------------------------
(* Helpers of the filter properties                                          *)

\* the engine is about to examine the artifact at the head of the queue
AtArtifact == eng.pc = "artifact" /\ eng.queue # <<>>

Readable(a) == meta_is_json(fs[a.pmeta].data)

MetaOf(a) == load_meta(fs[a.pmeta].data)

StemOf(a) == a.pjson.name[1]

\* neither the sidecar nor the file name says anything about the value
UndeterminedTag(a) ==
    /\ "parameters" \notin DOMAIN MetaOf(a)
    /\ \A i \in 1..Len(StemOf(a)) : StemOf(a)[i] \notin {"sym", "num"}

UndeterminedReps(a) ==
    /\ "reps" \notin DOMAIN MetaOf(a) \/ MetaOf(a)["reps"] = None
    /\ \A i \in 1..Len(StemOf(a)) : StemOf(a)[i] # "_r"

UndeterminedSeed(a) ==
    /\ "seed" \notin DOMAIN MetaOf(a) \/ MetaOf(a)["seed"] = None
    /\ \A i \in 1..Len(StemOf(a)) : StemOf(a)[i] # "_seed"

\* the values the engine resolves: the sidecar first, then the file name
ResolvedSize(a) == parse_size(MetaOf(a), StemOf(a))

ResolvedBits(a, family) ==
    LET bm == parse_meta_variant_bits(MetaOf(a), family)
        bf == parse_filename_variant_bits(StemOf(a), family)
    IN  [reps |-> IF bm[1] # None THEN bm[1] ELSE bf[1],
         seed |-> IF bm[2] # None THEN bm[2] ELSE bf[2],
         tag  |-> IF bm[3] # NoTag THEN bm[3] ELSE bf[3]]

Parameterized == {"qaoa", "vqe_two_local"}

SizePasses(a) ==
    ResolvedSize(a) # None
    /\ (Cfg.size_filter = {} \/ ResolvedSize(a) \in Cfg.size_filter)

RepsPasses(a, family) ==
    \/ family \notin Parameterized
    \/ Cfg.reps_filter = {}
    \/ ResolvedBits(a, family).reps \in Cfg.reps_filter

SeedPasses(a, family) ==
    \/ family # "qaoa"
    \/ Cfg.seeds_filter = {}
    \/ ResolvedBits(a, family).seed \in Cfg.seeds_filter

SymbolicPasses(a, family) ==
    ~Cfg.only_symbolic \/ ResolvedBits(a, family).tag \in {"sym", NoTag}

\* the step admits the artifact at the head of the queue / passes it over
AdmitsHead ==
    /\ eng'.admitted = Append(eng.admitted, eng.queue[1].pjson)
    /\ eng'.pjson = <<eng.queue[1].pjson>>
    /\ eng'.pc = "trial"

ExcludesHead ==
    /\ eng'.admitted = eng.admitted
    /\ eng'.queue = Tail(eng.queue)
    /\ eng'.pc = "artifact"

(* C13 Filter fail-open asymmetry: an artifact whose parameter-mode tag is   *)
(* in neither its sidecar nor its file name is admitted under symbolic-only  *)
(* (when its size resolves and no other filter excludes it), whereas an      *)
(* artifact of qaoa or vqe_two_local whose repetitions are in neither is     *)
(* excluded whenever the repetitions filter is not empty.                    *)
C13_FailOpenAsymmetry ==
    [][ (AtArtifact /\ Readable(eng.queue[1])) =>
          LET a      == eng.queue[1]
              family == eng.scope[2]
          IN  /\ (/\ UndeterminedTag(a)
                  /\ Cfg.only_symbolic
                  /\ SizePasses(a) /\ RepsPasses(a, family) /\ SeedPasses(a, family))
                 => AdmitsHead
              /\ (/\ family \in Parameterized
                  /\ UndeterminedReps(a)
                  /\ Cfg.reps_filter # {})
                 => ExcludesHead ]_vars

\* the artifact of a scope by its file name
Artifact(family, stem) ==
    [parent |-> <<circuits_root, "ibm_falcon", family>>, name |-> <<stem, "tket", "json">>]

\* under symbolic-only alone the untagged qaoa artifact was admitted and run,
\* while the numeric one was not
C13_Witness ==
    /\ eng.pc = "done"
    /\ Cfg.only_symbolic /\ Cfg.reps_filter = {}
    /\ \E i \in Ran : tlog[i].pjson = Artifact("qaoa", <<"plain", "_n", "8">>)
    /\ \A i \in Ran : tlog[i].pjson # canonical_path(QaoaSpec(FALSE), QaoaNumCircuit)

(* C14 Scope filter semantics: an artifact whose size resolves is admitted   *)
(* exactly when each requested set lets it through: an empty set restricts   *)
(* nothing; a non-empty size set excludes every artifact whose size is not   *)
(* in it; a non-empty repetitions set excludes the artifacts of qaoa and     *)
(* vqe_two_local whose repetitions are absent or not in it and no artifact   *)
(* of another family; a non-empty seed set excludes only the qaoa artifacts  *)
(* whose seed is absent or not in it.                                        *)
C14_ScopeFilterSemantics ==
    [][ (AtArtifact /\ Readable(eng.queue[1])) =>
          LET a      == eng.queue[1]
              family == eng.scope[2]
              size   == ResolvedSize(a)
              reps   == ResolvedBits(a, family).reps
              seed   == ResolvedBits(a, family).seed
              by_size == Cfg.size_filter # {} /\ size \notin Cfg.size_filter
              by_reps == /\ Cfg.reps_filter # {}
                         /\ family \in {"qaoa", "vqe_two_local"}
                         /\ (reps = None \/ reps \notin Cfg.reps_filter)
              by_seed == /\ Cfg.seeds_filter # {}
                         /\ family = "qaoa"
                         /\ (seed = None \/ seed \notin Cfg.seeds_filter)
          IN  /\ (by_size \/ by_reps \/ by_seed) => ExcludesHead
              /\ (size # None /\ ~by_size /\ ~by_reps /\ ~by_seed /\ ~Cfg.only_symbolic)
                    => AdmitsHead
              /\ (UndeterminedReps(a) /\ family \in {"qaoa", "vqe_two_local"}) => reps = None
              /\ (UndeterminedSeed(a) /\ family = "qaoa") => seed = None ]_vars

\* a run under the repetitions filter {3} alone: the qft artifacts and the
\* qaoa artifact with r3 in its name went through, the generated reps-1
\* artifacts of qaoa and vqe_two_local and the ones without repetitions did not
C14_Witness ==
    LET admitted == { eng.admitted[k] : k \in 1..Len(eng.admitted) }
    IN  /\ eng.pc = "done"
        /\ Cfg.reps_filter = {3} /\ Cfg.size_filter = {} /\ Cfg.seeds_filter = {}
        /\ admitted =
             { canonical_path(QftSpec, VqeCircuit),
               Artifact("qft", <<"big", "_n", "16">>),
               Artifact("qaoa", <<"old", "_n", "8", "_r", "3", "_seed", "22", "_",
                                  "num", "__", "x">>) }

-----------------------------------------------------------------------------
(* Metrics                                                                   *)

Measured == bench.call = "compute_metrics"

\* the commands of the measured circuit acting on other than one or two qubits
OtherArity ==
    { i \in DOMAIN bench.circ[1].cmds : OpArity(bench.circ[1].cmds[i]) \notin {1, 2} }

\* the directives of the measured circuit
Directives ==
    { i \in DOMAIN bench.circ[1].cmds :
         OpName(bench.circ[1].cmds[i]) \in {"barrier", "measure", "reset"} }

\* C15: for every circuit, the total of compute_metrics is the sum of its
\* barrier, measure and reset counts and its gates-only total
C15_MetricAdditivityTotal ==
    Measured =>
       LET m == bench.ret[1]
       IN  m.n_ops_total = m.n_ops_directive_barrier + m.n_ops_directive_measure
                             + m.n_ops_directive_reset + m.n_ops_total_gates

\* a measured circuit holding each of the three directives
C15_Witness ==
    /\ Measured
    /\ bench.ret[1].n_ops_directive_barrier = 1
    /\ bench.ret[1].n_ops_directive_measure = 1
    /\ bench.ret[1].n_ops_directive_reset = 1
    /\ bench.ret[1].n_ops_total = 3

\* C16: for every circuit, directives on one or two qubits included, the
\* gates-only total is at least the one-qubit count plus the two-qubit count,
\* and equal to it unless a command acts on other than one or two qubits
C16_MetricArityBound ==
    Measured =>
       LET m == bench.ret[1]
       IN  /\ m.n_ops_total_gates >= m.n_ops_1q + m.n_ops_2q
           /\ OtherArity = {} => m.n_ops_total_gates = m.n_ops_1q + m.n_ops_2q

-----------------------------------------------------------------------------
(* Error handling                                                            *)

HasUnknown(seq_names) == \E i \in DOMAIN seq_names : seq_names[i] \notin PASS_OBJS

\* every call of the sequencer with a list holding an unknown name, over the
\* circuits and name lists of the library specification
UnknownNameCalls ==
    { cs \in LibraryCircuits \X NameLists : HasUnknown(cs[2]) }

\* each of them raises and leaves the caller's circuit as it was
SequencerRejects ==
    \A cs \in UnknownNameCalls :
       LET r == apply_sequence(cs[1], cs[2])
       IN  r.error /\ r.circ = cs[1]

\* the engine is at a trial whose sequence holds an unknown name
FailingTrial == eng.pc = "trial" /\ HasUnknown(eng.plans[1].seq)

\* C17: apply_sequence raises on a list holding a name outside the registry
\* and leaves the caller's circuit unchanged; the engine's trial with such a
\* list ends the run with no csv, no dump and no aggregate row written
C17_UnknownNameHardError ==
    [][ /\ SequencerRejects
        /\ FailingTrial =>
              /\ eng'.pc = "aborted"
              /\ eng'.base = eng.base
              /\ results' = results
              /\ dumps' = dumps
              /\ tlog' = tlog ]_vars

\* the run ended at a trial whose first pass is known and changes the circuit
\* and whose second is unknown
C17_Witness ==
    /\ eng.pc = "aborted"
    /\ eng.plans # <<>>
    /\ eng.plans[1].seq = <<"RB", "XX">>
    /\ RemoveBarriers(eng.base[1].cmds) # eng.base[1].cmds
    /\ Outfile(eng.plans[1]) \notin DOMAIN results
    /\ results # << >>

\* the step is a trial whose debug dump failed
DumpFailed ==
    /\ Len(tlog') = Len(tlog) + 1
    /\ tlog'[Len(tlog')].fault # "none"

\* C18: a trial whose before or after debug dump fails still writes its
\* per-trial csv and appends its row to the scope's aggregate, and the engine
\* goes on to the next trial
C18_DumpFailureNotFatal ==
    [][ DumpFailed =>
          LET e == tlog'[Len(tlog')]
          IN  /\ e.ran
              /\ e.stem = TrialStem(eng.plans[1])
              /\ e.stem \o ".csv" \in DOMAIN results'
              /\ results'[e.stem \o ".csv"] = <<PRETTY_COLS, e.row>>
              /\ results'[eng.scoped_path] = Append(results[eng.scoped_path], e.row)
              /\ eng'.plans = Tail(eng.plans)
              /\ eng'.pc = IF eng'.plans = <<>> THEN "artifact" ELSE "trial" ]_vars

\* the before dump of one trial could not be opened, its csv and aggregate
\* row are there, and the trial after it has run
C18_Witness ==
    /\ Len(tlog) = 2
    /\ tlog[1].fault = "before_open"
    /\ tlog[1].stem \o "__before.tket.json" \notin DOMAIN dumps
    /\ results[tlog[1].stem \o ".csv"] = <<PRETTY_COLS, tlog[1].row>>
    /\ tlog[2].ran
    /\ results[eng.scoped_path] = <<PRETTY_COLS, tlog[1].row, tlog[2].row>>

\* the artifact at the head of the queue is one the engine passes over: its
\* size does not resolve, or a size, reps, seed or symbolic-only filter
\* excludes it
SoftSkipArtifact ==
    /\ AtArtifact
    /\ Readable(eng.queue[1])
    /\ ~(/\ SizePasses(eng.queue[1])
         /\ RepsPasses(eng.queue[1], eng.scope[2])
         /\ SeedPasses(eng.queue[1], eng.scope[2])
         /\ SymbolicPasses(eng.queue[1], eng.scope[2]))

\* the trial at hand is one skip-existing passes over
SoftSkipTrial ==
    /\ eng.pc = "trial"
    /\ Cfg.skip_existing
    /\ (TrialAtHand \o ".csv") \in DOMAIN results

\* C19: passing over an artifact (unresolved size, or a size, reps, seed or
\* symbolic-only filter) or a trial (skip-existing) creates and modifies no
\* per-trial csv, no debug dump and no aggregate, and the loop goes on with
\* the next artifact or trial
C19_SoftSkipsWriteNothing ==
    [][ /\ SoftSkipArtifact =>
              /\ results' = results
              /\ dumps' = dumps
              /\ eng'.queue = Tail(eng.queue)
              /\ eng'.pc = "artifact"
        /\ SoftSkipTrial =>
              /\ results' = results
              /\ dumps' = dumps
              /\ eng'.plans = Tail(eng.plans)
              /\ eng'.pc = IF eng'.plans = <<>> THEN "artifact" ELSE "trial" ]_vars

\* a second run, under skip-existing and a repetitions filter, has ended: it
\* skipped a trial whose csv the first run left and passed over the artifact
\* without a size and the one with other repetitions
C19_Witness ==
    LET admitted == { eng.admitted[k] : k \in 1..Len(eng.admitted) }
        nameless == Artifact("qaoa", <<"nameless">>)
        old      == Artifact("qaoa", <<"old", "_n", "8", "_r", "3", "_seed", "22", "_",
                                       "num", "__", "x">>)
    IN  /\ eng.pc = "done"
        /\ Cfg.skip_existing /\ Cfg.reps_filter = {1}
        /\ nruns = 2
        /\ {nameless, old} \subseteq DOMAIN fs
        /\ nameless \notin admitted /\ old \notin admitted
        /\ \E i \in 1..Len(tlog) :
              ~tlog[i].ran /\ (tlog[i].stem \o ".csv") \in DOMAIN results

\* C20: when malformed metadata or an unknown transformation name ends the
\* run inside a scope, every per-trial file the run wrote before is on disk
\* with its content, the aggregate of that scope holds the rows written
\* before the error, and the aggregate of every scope completed before holds
\* exactly what it held when that scope was closed
C20_FatalKeepsEarlierOutput ==
    eng.pc = "aborted" =>
       /\ \A i \in Ran :
             /\ (tlog[i].stem \o ".csv") \in DOMAIN results
             /\ results[tlog[i].stem \o ".csv"] = <<PRETTY_COLS, tlog[i].row>>
             /\ (tlog[i].stem \o "__before.tket.json") \in DOMAIN dumps
             /\ (tlog[i].stem \o "__after.tket.json") \in DOMAIN dumps
       /\ \A k \in 1..Len(Scopes) :
             LET path == scoped_path_of(Scopes[k][1], Scopes[k][2])
             IN  path \in DOMAIN eng.agg_open =>
                   /\ path \in DOMAIN results
                   /\ results[path] = eng.agg_open[path] \o RowsOf(tlog, Scopes[k])

\* a torn sidecar ended the run in the second scope, after a trial of that
\* scope and a trial of the first scope had been written
C20_Witness ==
    /\ eng.pc = "aborted"
    /\ eng.queue # <<>>
    /\ ~Readable(eng.queue[1])
    /\ eng.scope = Scopes[2]
    /\ RowsOf(tlog, Scopes[1]) # <<>>
    /\ RowsOf(tlog, Scopes[2]) # <<>>

-----------------------------------------------------------------------------
(* Batch generation                                                          *)

\* C21: when the builder fails for one spec of the batch, the batch does not
\* crash, and once it is over every spec listed after the failing one has
\* its artifact and sidecar frozen
C21_BatchSurvivesFailingSpec ==
    /\ batch.pc # "crashed"
    /\ (batch.pc = "done" /\ batch.failed # {}) =>
          \A i \in 1..Len(BatchSpecs), j \in batch.failed :
             i > j => \E d \in derived :
                         /\ d.spec = BatchSpecs[i]
                         /\ exists(d.path) /\ exists(meta_path(d.path))

-----------------------------------------------------------------------------
(* Discovery                                                                 *)

\* the step is a call of find_circuits
Discovering == bench' # bench /\ bench'.call = "find_circuits"

\* q is a file named *.tket.json somewhere under the directory dir
IsArtifactUnder(q, dir) ==
    /\ Len(q.parent) >= Len(dir)
    /\ SubSeq(q.parent, 1, Len(dir)) = dir
    /\ Len(q.name) >= 3
    /\ SubSeq(q.name, Len(q.name) - 1, Len(q.name)) = <<"tket", "json">>

\* foo.tket.json -> foo.tket.meta.json
KeepName(q) == [q EXCEPT !.name = SubSeq(@, 1, Len(@) - 1) \o <<"meta", "json">>]

\* foo.tket.json -> foo.meta.json
DropName(q) == [q EXCEPT !.name = SubSeq(@, 1, Len(@) - 2) \o <<"meta", "json">>]

\* C22: find_circuits yields a *.tket.json file under root/gateset/family
\* exactly when one of foo.tket.meta.json and foo.meta.json exists, with the
\* former if it exists and the latter otherwise; a file with neither is left
\* out; every artifact whose sidecar _freeze_json wrote is yielded with it
C22_DiscoveryYieldsResolved ==
    [][ Discovering =>
          LET dir     == bench'.args
              yielded == bench'.ret[1]
          IN  /\ \A y \in yielded : exists(y.pjson) /\ IsArtifactUnder(y.pjson, dir)
              /\ \A q \in DOMAIN fs :
                    IsArtifactUnder(q, dir) =>
                      /\ exists(KeepName(q)) =>
                            { y \in yielded : y.pjson = q }
                               = { [pjson |-> q, pmeta |-> KeepName(q)] }
                      /\ (~exists(KeepName(q)) /\ exists(DropName(q))) =>
                            { y \in yielded : y.pjson = q }
                               = { [pjson |-> q, pmeta |-> DropName(q)] }
                      /\ (~exists(KeepName(q)) /\ ~exists(DropName(q))) =>
                            { y \in yielded : y.pjson = q } = {}
              /\ \A p \in procs :
                    (/\ fz[p].pc = "done" /\ fz[p].renamed
                     /\ SubSeq(fz[p].path.parent, 1, 3) = dir) =>
                       [pjson |-> fz[p].path, pmeta |-> meta_path(fz[p].path)]
                          \in yielded ]_vars

\* a call over the qft directory gave the frozen artifact with the sidecar
\* the freeze wrote, foo with its only sidecar foo.meta.json, the deeper bar
\* with bar.tket.meta.json although bar.meta.json is there too
C22_Witness ==
    LET foo == QftFile(<<>>, << <<"foo">>, "tket", "json">>)
        bar == QftFile(<<"old">>, << <<"bar">>, "tket", "json">>)
        qft == canonical_path(QftSpec, Circuit(<<"H0">>))
    IN  /\ bench.call = "find_circuits"
        /\ exists(DropName(bar)) /\ ~exists(KeepName(foo))
        /\ bench.ret[1] = { [pjson |-> qft, pmeta |-> meta_path(qft)],
                            [pjson |-> foo, pmeta |-> DropName(foo)],
                            [pjson |-> bar, pmeta |-> KeepName(bar)] }

-----------------------------------------------------------------------------
(* Trial file names                                                          *)

\* C23: within one run over artifacts the generator froze at distinct
\* canonical paths, two trials that differ in artifact, pair or direction
\* have different per-trial csv paths and different debug dump paths, and
\* the csv of each trial that ran holds that trial's row
C23_TrialWritesDistinct ==
    /\ \A i, j \in 1..Len(tlog) :
          i # j =>
            /\ <<tlog[i].pjson, tlog[i].plan>> # <<tlog[j].pjson, tlog[j].plan>>
            /\ tlog[i].stem \o ".csv" # tlog[j].stem \o ".csv"
            /\ tlog[i].stem \o "__before.tket.json" # tlog[j].stem \o "__before.tket.json"
            /\ tlog[i].stem \o "__after.tket.json" # tlog[j].stem \o "__after.tket.json"
    /\ \A i \in Ran :
          /\ (tlog[i].stem \o ".csv") \in DOMAIN results
          /\ results[tlog[i].stem \o ".csv"] = <<PRETTY_COLS, tlog[i].row>>

\* a run of every pair in both directions over all ten artifacts has ended:
\* sixty trials, sixty csv files beside the three aggregates, twice sixty dumps
C23_Witness ==
    /\ eng.pc = "done"
    /\ Len(tlog) = 6 * Len(ManySpecs)
    /\ Ran = 1..Len(tlog)
    /\ Cardinality(DOMAIN results) = Len(tlog) + Len(Scopes)
    /\ Cardinality(DOMAIN dumps) = 2 * Len(tlog)

-----------------------------------------------------------------------------
(* Concurrent freezes                                                        *)

\* what the call of p does when it runs alone over the target it found: it
\* leaves it alone (preserve mode over an existing target, compare mode over
\* equal content) or writes it
AloneLeaves(p) ==
    TargetExisted(p) /\ (~(fz[p].force \/ fz[p].compare)
                          \/ (fz[p].compare /\ SameHashOnDisk(p)))

\* the two processes are at work on different targets
DistinctTargets == Called(1) /\ Called(2) /\ fz[1].path # fz[2].path

\* C24: two freezes of different canonical paths, interleaved in any way,
\* each end as if run alone: a call that writes leaves its target with its
\* own content and its sidecar with its own metadata, a call that does not
\* write leaves both as it found them
C24_DistinctFreezesSafe ==
    DistinctTargets =>
       \A p \in Procs :
          /\ fz[p].tmp # IdleFrame.tmp => fz[p].tmp # fz[3 - p].tmp
          /\ Returned(p) =>
                IF AloneLeaves(p)
                THEN TargetIsOld(p) /\ MetaIsOld(p) /\ ~fz[p].renamed
                ELSE TargetIsNew(p) /\ MetaIsNew(p) /\ fz[p].renamed

\* both returned after writing, in the same directory, the second caller
\* having renamed before the first and the first over an existing target
C24_Witness ==
    /\ DistinctTargets
    /\ fz[1].path.parent = fz[2].path.parent
    /\ Returned(1) /\ Returned(2)
    /\ fz[1].renamed /\ fz[2].renamed
    /\ TargetExisted(1) /\ fz[1].call = 1
    /\ fs[fz[1].path].mtime = 1 /\ fs[meta_path(fz[1].path)].mtime = 1
    /\ fs[fz[2].path].mtime = 2

\* the two processes are at work on one target, with different contents
SameTarget ==
    /\ Called(1) /\ Called(2)
    /\ fz[1].path = fz[2].path
    /\ fz[1].new_json # fz[2].new_json

\* each has its own temporary file, and the target is absent or as the first
\* caller found it, or holds the complete content of one of the two
OwnTmpWholeTarget ==
    /\ \A p \in Procs : fz[p].tmp # IdleFrame.tmp => fz[p].tmp # fz[3 - p].tmp
    /\ \/ \E p \in Procs : TargetIsOld(p)
       \/ \E p \in Procs : TargetIsNew(p)

-----------------------------------------------------------------------------
(* Temporary files                                                           *)

\* the temporary file of p's call is on disk
TmpLeft(p) == fz[p].tmp # IdleFrame.tmp /\ exists(fz[p].tmp)

\* the contents that may stand under a target: what the caller found there,
\* or the whole serialization of a call made for that path
WholeContents(p) ==
    { d.data : d \in { fz[p].pre_art[k] : k \in DOMAIN fz[p].pre_art } }
    \cup { to_json(d.tkc) : d \in { e \in derived : e.path = fz[p].path } }

\* C25: in every state of a freeze, one that crashed with its temporary file
\* written or whose rename failed included, the target holds no incomplete
\* content, and a temporary file on disk is neither the target nor the
\* sidecar, has no name of the form *.tket.json and is yielded by discovery
\* in no scope, neither as artifact nor as metadata
C25_NoTmpUnderRealName ==
    \A p \in Procs :
       Called(p) =>
          /\ exists(fz[p].path) => fs[fz[p].path].data \in WholeContents(p)
          /\ TmpLeft(p) =>
                /\ fz[p].tmp \notin {fz[p].path, meta_path(fz[p].path)}
                /\ ~IsArtifactUnder(fz[p].tmp, <<>>)
                /\ \A k \in 1..Len(Scopes) :
                      \A y \in find_circuits(circuits_root, Scopes[k][1], Scopes[k][2]) :
                         y.pjson # fz[p].tmp /\ y.pmeta # fz[p].tmp

\* the rename of one call failed with its temporary file complete, the other
\* call crashed with its temporary file half written; the target both were
\* for is as they found it and discovery yields it alone
C25_Witness ==
    /\ Called(1) /\ Called(2)
    /\ fz[1].ret = <<"OSError">> /\ TmpLeft(1)
    /\ fs[fz[1].tmp].data = fz[1].new_json
    /\ fz[2].crashed /\ TmpLeft(2)
    /\ fs[fz[2].tmp].data \notin {<<>>, fz[2].new_json}
    /\ fz[1].path = fz[2].path
    /\ TargetExisted(1) /\ TargetIsOld(1) /\ fz[1].new_json # fz[1].pre_art[1].data
    /\ find_circuits(circuits_root, "ibm_falcon", "qaoa")
          = { [pjson |-> fz[1].path, pmeta |-> meta_path(fz[1].path)] }

-----------------------------------------------------------------------------
(* Repeated freezes                                                          *)

\* the call of p is a compare-mode freeze of the content a freeze before it
\* left at the target
RefreezeOfSame(p) ==
    /\ Called(p) /\ fz[p].compare
    /\ TargetExisted(p)
    /\ fz[p].pre_art[1].data = fz[p].new_json

\* C26: a call that wrote the artifact returns the hash of the bytes now at
\* the target; a compare-mode freeze of the content already there writes
\* neither the artifact nor the sidecar in any of its states and returns that
\* same hash, so that however often it is repeated the files stay as the
\* first freeze of that content left them
C26_CompareFreezeIdempotent ==
    \A p \in procs :
       /\ (Returned(p) /\ fz[p].renamed) =>
             /\ exists(fz[p].path)
             /\ fz[p].ret = sha256(fs[fz[p].path].data)
       /\ RefreezeOfSame(p) =>
             /\ ~fz[p].renamed
             /\ Snapshot(fz[p].path) = fz[p].pre_art
             /\ Snapshot(meta_path(fz[p].path)) = fz[p].pre_meta
             /\ fs[fz[p].path].mtime < fz[p].call
             /\ ~(TmpLeft(p) /\ fz[p].pc # "idle")
             /\ Returned(p) => fz[p].ret = sha256(fs[fz[p].path].data)

\* the second call, a compare freeze of what the first call wrote, returned:
\* artifact and sidecar are those of the first call
C26_Witness ==
    \E p \in procs :
        /\ RefreezeOfSame(p) /\ Returned(p)
        /\ fz[p].call = 2
        /\ fs[fz[p].path] = [data |-> fz[p].new_json, mtime |-> 1]
        /\ exists(meta_path(fz[p].path))
        /\ fs[meta_path(fz[p].path)].mtime = 1
        /\ fz[p].ret = sha256(fz[p].new_json)

-----------------------------------------------------------------------------
(* The aggregates over several runs                                          *)

\* a line of an aggregate that is a data row: one cell per column, stamped
\* by a run
IsDataRow(line) ==
    /\ line # PRETTY_COLS
    /\ Len(line) = Len(PRETTY_COLS)
    /\ \E t \in 1..MaxRuns + 1 : line[Col("timestamp")] = ToString(t)

\* every aggregate of the store res is one header line, then data rows only
HeaderThenRows(res) ==
    \A path \in DOMAIN res \cap ScopePaths :
       /\ Len(res[path]) >= 1
       /\ res[path][1] = PRETTY_COLS
       /\ \A i \in 2..Len(res[path]) : IsDataRow(res[path][i])

\* the engine is about to open the aggregate of its next scope
AtOpen == eng.pc = "scope" /\ eng.scopes # <<>>

NextAggregate == scoped_path_of(eng.scopes[1][1], eng.scopes[1][2])

\* C27: after every step of any sequence of runs (fresh-summary or not,
\* skip-existing or not, scopes without artifacts included) every scope
\* aggregate is exactly one header line followed by data rows only; the
\* step that opens an aggregate leaves it holding the header alone when the
\* file did not exist or fresh-summary is set, and leaves it as it was
\* otherwise
C27_AggregateHeaderOnce ==
    [][ /\ HeaderThenRows(results')
        /\ AtOpen =>
              /\ NextAggregate \in DOMAIN results'
              /\ results'[NextAggregate] =
                    IF NextAggregate \notin DOMAIN results \/ Cfg.fresh_summary
                    THEN <<PRETTY_COLS>>
                    ELSE results[NextAggregate] ]_vars

\* a second run ended that appended under skip-existing: the aggregate of a
\* scope with artifacts holds rows of both runs under its one header, the
\* aggregate of the scope without artifacts its header alone
C27_Witness ==
    /\ eng.pc = "done" /\ nruns = 2
    /\ ~Cfg.fresh_summary /\ Cfg.skip_existing
    /\ LET qft == scoped_path_of("ibm_falcon", "qft")
           vqe == scoped_path_of("ibm_falcon", "vqe_two_local")
       IN  /\ Len(eng.agg_open[qft]) > 1
           /\ Len(results[qft]) > Len(eng.agg_open[qft])
           /\ results[qft][2][Col("timestamp")] = "1"
           /\ results[qft][Len(results[qft])][Col("timestamp")] = "2"
           /\ results[vqe] = <<PRETTY_COLS>>

\* the scope aggregate that the row of a per-trial csv belongs to
AggregateOf(row) == scoped_path_of(row[Col("gateset")], row[Col("family")])

\* every per-trial csv present has its data row in the aggregate of its scope
TrialRowsInAggregate ==
    \A q \in DOMAIN results \ ScopePaths :
       LET row == results[q][2]
       IN  /\ AggregateOf(row) \in DOMAIN results
           /\ \E i \in 2..Len(results[AggregateOf(row)]) :
                  results[AggregateOf(row)][i] = row

\* C29 (as claimed): after any sequence of complete runs with the same
\* inputs, any mix of skip-existing and fresh-summary, every per-trial csv
\* present has its data row in the aggregate of its scope
C29_TrialFilesInAggregate ==
    (eng.pc = "done" /\ eng.same) => TrialRowsInAggregate

\* C29 (amended): after any sequence of complete runs with the same inputs
\* none of which asked for skip-existing and fresh-summary together, every
\* per-trial csv present has its data row in the aggregate of its scope
C29_TrialFilesInAggregateUnmixed ==
    (eng.pc = "done" /\ eng.same /\ ~eng.mixed) => TrialRowsInAggregate

\* a second run of the same inputs skipped a trial whose csv the first run
\* wrote and appended to the aggregate that holds its row
C29_Witness ==
    /\ eng.pc = "done" /\ eng.same /\ ~eng.mixed
    /\ nruns = 2
    /\ Cfg.skip_existing
    /\ \E i \in 1..Len(tlog) :
          /\ ~tlog[i].ran
          /\ results[tlog[i].stem \o ".csv"][2][Col("timestamp")] = "1"
          /\ Len(results[AggregateOf(results[tlog[i].stem \o ".csv"][2])]) > 1

====
